---- MODULE Spec2Model ----
(***************************************************************************)
(* A model of rectarg.py v1.1 (the chart reconstruction engine): the       *)
(* layout and reference parsers, the label sequencer, identifier           *)
(* normalisation and lookup, the grid builder and the patch colour         *)
(* resolution of recreate().                                               *)
(*                                                                         *)
(* Text is modelled as sequences of one-character strings.  Floating point *)
(* quantities are modelled as exact rationals (numerator, denominator);    *)
(* int(round(x)) is Python's round-half-to-even.                           *)
(***************************************************************************)
EXTENDS Integers, Sequences, FiniteSets, TLC

VARIABLES
    pc,             \* the position of the run
    \* GridBuilder, one axis of one area (recreate, x_edges / y_edges)
    ncols,          \* label count of the axis (0 = disabled axis)
    tile_x,         \* tile size in thousandths of a unit
    SX,             \* scale factor <<numerator, denominator>>
    start_x_px,     \* pre_x * SX + offset_x, numerator over 2 * TileDen * SX[2]
    x_edges,        \* the pixel edges of the axis
    \* LabelSequencer (generate_labels)
    tok_start, tok_end, labels,
    axis_labels,    \* labels_x / labels_y as the patch loop of recreate() uses them
    \* normalize_sid_global
    sid_in, normalized,
    \* LayoutParser (parse_cht)
    cht_txt,        \* the layout text
    cht,            \* the parsed layout, or the error raised
    \* ReferenceParser (parse_it8_or_cie)
    cie_txt,        \* the reference text
    space_in,       \* the active colour space (color_space)
    cie_fmt,        \* the column names of the format block (fmt)
    data_map,       \* the lookup table: upper-cased identifier -> entry
    \* recreate(): patches and report
    painted,        \* the patches in sample order: identifier, entry key, colour
    missing_labels, \* the identifiers recorded as missing
    truly_missing,  \* the identifiers printed as missing
    expected_cht,   \* the patch count the layout file declares (0 = none)
    expected_cie,   \* the patch count the reference file declares (0 = none)
    \* LabelVisibilityResolver (recreate, neighbour detection and overrides)
    vis_areas,      \* the areas of the layout
    vis_scale,      \* <<SX, SY>>, each <<numerator, denominator>>
    vis_offset,     \* <<offset_x, offset_y>> in half pixels
    vis_clearance,  \* per area: <<clearance_w_px, clearance_h_px>>
    vis_entries,    \* label_axis_visible: the override entries of the caller
    vis_flags,      \* per area: which sides have their labels drawn
    \* ScaleResolver (detect_best_a4_dpi, recreate scale factors)
    chart_extent,   \* <<chart_w, chart_h>> in thousandths of a unit
    page_margin,    \* page_margin_mm
    target_dpi,     \* the caller's target DPI (0 = none supplied)
    detected_dpi,
    used_dpi,
    scale_xy,       \* <<scale_x, scale_y>>, each <<numerator, denominator>>
    \* recreate(): the patch rectangles of two areas laid side by side
    paint_in,       \* the two areas, the scale, the offset and BOX_SHRINK
    shrink_x_px,    \* box_shrink_units * SX, <<numerator, denominator>>
    paint_edges,    \* per area: x_edges
    paint_cols,     \* per area: the painted columns <<x0c, x1c>> of its patches
    \* ColorResolver (lab_to_xyz, xyz_d50_to_srgb_intent, 16-bit quantisation)
    lab_in,         \* <<L, a, b>>
    intent_in,      \* the rendering intent
    rgb_lin,        \* rgb_lin: three integers over one denominator
    rgb16,          \* the three channels as they are written to the canvas
    \* recreate(): make_patch_label and find_vals_for_sid on their own
    label_in,       \* <<label_mode, rlabel, clabel>>
    patch_label,    \* the identifier make_patch_label returns
    lookup_keys,    \* the keys of data_map
    lookup_sid,     \* the identifier looked up
    lookup_key      \* the key of the record returned, NoKey for None

gridvars == <<ncols, tile_x, SX, start_x_px, x_edges>>

labelvars == <<tok_start, tok_end, labels, axis_labels>>

normvars == <<sid_in, normalized>>

chtvars == <<cht_txt, cht>>

refvars == <<cie_txt, space_in, cie_fmt, data_map>>

paintvars == <<painted, missing_labels, truly_missing, expected_cht, expected_cie>>

visvars == <<vis_areas, vis_scale, vis_offset, vis_clearance, vis_entries, vis_flags>>

dpivars == <<chart_extent, page_margin, target_dpi, detected_dpi, used_dpi, scale_xy>>

rectvars == <<paint_in, shrink_x_px, paint_edges, paint_cols>>

colourvars == <<lab_in, intent_in, rgb_lin, rgb16>>

idvars == <<label_in, patch_label, lookup_keys, lookup_sid, lookup_key>>

vars == <<pc, gridvars, labelvars, normvars, chtvars, refvars, paintvars, visvars,
          dpivars, rectvars, colourvars, idvars>>

-----------------------------------------------------------------------------
(* Bounds of the model *)

\* the most labels on an axis of the grid builder
MaxCount == 3

\* the most digits of a numeric label token
MaxDigits == 2

\* the most characters of an identifier given to normalize_sid_global
MaxIdLen == 4

\* the most lines of a layout text, and the most numbers on its F line
MaxLines == 2

MaxFNums == 10

\* the most rows in the data block of a reference text
MaxRows == 2

-----------------------------------------------------------------------------
(* Arithmetic helpers *)

Abs(x) == IF x < 0 THEN -x ELSE x

Max2(a, b) == IF a >= b THEN a ELSE b

Min2(a, b) == IF a <= b THEN a ELSE b

\* math.floor(p / q), q > 0
Floor(p, q) == p \div q

\* int(round(p / q)), q > 0: Python 3 rounds halves to the even neighbour
RoundHalfEven(p, q) ==
    LET f == p \div q
        r == p - f * q
    IN  IF 2 * r < q THEN f
        ELSE IF 2 * r > q THEN f + 1
        ELSE IF f % 2 = 0 THEN f ELSE f + 1

-----------------------------------------------------------------------------
(* Text: a string is a sequence of one-character strings *)

UpperSeq == <<"A","B","C","D","E","F","G","H","I","J","K","L","M",
              "N","O","P","Q","R","S","T","U","V","W","X","Y","Z">>

LowerSeq == <<"a","b","c","d","e","f","g","h","i","j","k","l","m",
              "n","o","p","q","r","s","t","u","v","w","x","y","z">>

DigitSeq == <<"0","1","2","3","4","5","6","7","8","9">>

IsDigit(c) == \E i \in 1..10 : DigitSeq[i] = c

IsUpper(c) == \E i \in 1..26 : UpperSeq[i] = c

IsLower(c) == \E i \in 1..26 : LowerSeq[i] = c

IsSpace(c) == c \in {" ", "\t"}

DigitVal(c) == (CHOOSE i \in 1..10 : DigitSeq[i] = c) - 1

\* ord(c) - 64 for an upper-case letter
LetterVal(c) == CHOOSE i \in 1..26 : UpperSeq[i] = c

\* str.upper() of one character
UpperChar(c) ==
    IF IsLower(c) THEN UpperSeq[CHOOSE i \in 1..26 : LowerSeq[i] = c] ELSE c

\* str.upper()
Upper(s) == [i \in 1..Len(s) |-> UpperChar(s[i])]

AllDigits(s) == \A i \in 1..Len(s) : IsDigit(s[i])

AllUpper(s) == \A i \in 1..Len(s) : IsUpper(s[i])

\* the number of leading characters of s that satisfy the class test
RECURSIVE LeadDigits(_)
LeadDigits(s) ==
    IF s # <<>> /\ IsDigit(Head(s)) THEN 1 + LeadDigits(Tail(s)) ELSE 0

RECURSIVE LeadUpper(_)
LeadUpper(s) ==
    IF s # <<>> /\ IsUpper(Head(s)) THEN 1 + LeadUpper(Tail(s)) ELSE 0

\* s[k:] of Python (k counted from 0)
Drop(s, k) == SubSeq(s, k + 1, Len(s))

\* s[:k] of Python
Take(s, k) == SubSeq(s, 1, k)

\* str.strip(): leading and trailing white space removed
RECURSIVE LStrip(_)
LStrip(s) == IF s # <<>> /\ IsSpace(Head(s)) THEN LStrip(Tail(s)) ELSE s

RECURSIVE RStrip(_)
RStrip(s) ==
    IF s # <<>> /\ IsSpace(s[Len(s)]) THEN RStrip(Take(s, Len(s) - 1)) ELSE s

Strip(s) == RStrip(LStrip(s))

\* str.strip('"'): leading and trailing double quotes removed
RECURSIVE LStripQuotes(_)
LStripQuotes(s) ==
    IF s # <<>> /\ Head(s) = "\"" THEN LStripQuotes(Tail(s)) ELSE s

RECURSIVE RStripQuotes(_)
RStripQuotes(s) ==
    IF s # <<>> /\ s[Len(s)] = "\""
    THEN RStripQuotes(Take(s, Len(s) - 1)) ELSE s

StripQuotes(s) == RStripQuotes(LStripQuotes(s))

\* int(s) for a digit string s
RECURSIVE ToInt(_)
ToInt(s) ==
    IF s = <<>> THEN 0
    ELSE 10 * ToInt(Take(s, Len(s) - 1)) + DigitVal(s[Len(s)])

\* str(n) for n >= 0
RECURSIVE ToStr(_)
ToStr(n) ==
    IF n < 10 THEN <<DigitSeq[n + 1]>>
    ELSE Append(ToStr(n \div 10), DigitSeq[(n % 10) + 1])

\* f"{n:0{w}d}": str(n) padded on the left with zeros to at least w characters
RECURSIVE ZeroPad(_, _)
ZeroPad(s, w) == IF Len(s) >= w THEN s ELSE ZeroPad(<<"0">> \o s, w)

Pad(n, w) == ZeroPad(ToStr(n), w)

-----------------------------------------------------------------------------
(* LabelSequencer: generate_labels and _alpha_range *)

GS == <<"G", "S">>

Sentinel == <<"_">>

\* re.match(r'^(GS)(\d+)$', s)
IsGSToken(s) == Len(s) >= 3 /\ Take(s, 2) = GS /\ AllDigits(Drop(s, 2))

\* re.match(r'^\d+$', s)
IsNumeric(s) == Len(s) >= 1 /\ AllDigits(s)

\* re.match(r'^[A-Z]+$', s)
IsAlpha(s) == Len(s) >= 1 /\ AllUpper(s)

\* re.match(r'^(\d+)([A-Z]+)$', s)
IsDigitsAlpha(s) ==
    /\ LeadDigits(s) >= 1
    /\ LeadDigits(s) < Len(s)
    /\ AllUpper(Drop(s, LeadDigits(s)))

\* alpha_to_num: bijective base 26, A = 1
RECURSIVE alpha_to_num(_)
alpha_to_num(a) ==
    IF a = <<>> THEN 0
    ELSE alpha_to_num(Take(a, Len(a) - 1)) * 26 + LetterVal(a[Len(a)])

\* num_to_alpha: n, r = divmod(n - 1, 26); s = chr(65 + r) + s
RECURSIVE num_to_alpha(_)
num_to_alpha(n) ==
    IF n <= 0 THEN <<>>
    ELSE Append(num_to_alpha((n - 1) \div 26), UpperSeq[((n - 1) % 26) + 1])

\* the labels n1..n2 without the reordering of n1 and n2
AlphaRangeUnordered(start, end) ==
    [i \in 1..(alpha_to_num(end) - alpha_to_num(start) + 1) |->
        num_to_alpha(alpha_to_num(start) + i - 1)]

\* _alpha_range: the labels n1..n2 after reordering
alpha_range(start, end) ==
    LET a  == alpha_to_num(start)
        b  == alpha_to_num(end)
        n1 == IF b < a THEN b ELSE a
        n2 == IF b < a THEN a ELSE b
    IN  [i \in 1..(n2 - n1 + 1) |-> num_to_alpha(n1 + i - 1)]

\* the range without its end: range(a, b)
PaddedRangeExclusive(prefix, a, b, width) ==
    [i \in 1..(b - a) |-> prefix \o Pad(a + i - 1, width)]

\* the range without padding: f"{prefix}{idx}"
PaddedRangeUnpadded(prefix, a, b, width) ==
    [i \in 1..(b - a + 1) |-> prefix \o ToStr(a + i - 1)]

\* [f"{prefix}{idx:0{width}d}" for idx in range(a, b + 1)]
PaddedRange(prefix, a, b, width) ==
    [i \in 1..(b - a + 1) |-> prefix \o Pad(a + i - 1, width)]

\* both tokens are the sentinel
BothDisabled(start_tok, end_tok) == start_tok = Sentinel /\ end_tok = Sentinel

\* start_tok == '_' or end_tok == '_'
DisabledAxis(start_tok, end_tok) == start_tok = Sentinel \/ end_tok = Sentinel

\* the two tokens in every case
FallbackPair(s, e) == <<s, e>>

\* [s] if s == e else [s, e]
Fallback(s, e) == IF s = e THEN <<s>> ELSE <<s, e>>

generate_labels(start_tok, end_tok) ==
    LET s == Upper(Strip(start_tok))
        e == Upper(Strip(end_tok))
    IN  IF DisabledAxis(start_tok, end_tok) THEN <<>>
        ELSE IF IsGSToken(s) /\ IsGSToken(e)
        THEN PaddedRange(GS, ToInt(Drop(s, 2)), ToInt(Drop(e, 2)),
                         Max2(Len(s) - 2, Len(e) - 2))
        ELSE IF IsNumeric(s) /\ IsNumeric(e)
        THEN PaddedRange(<<>>, ToInt(s), ToInt(e), Max2(Len(s), Len(e)))
        ELSE IF /\ IsDigitsAlpha(s)
                /\ IsDigitsAlpha(e)
                /\ Take(s, LeadDigits(s)) = Take(e, LeadDigits(e))
        THEN LET prefix == Take(s, LeadDigits(s))
                 subs == alpha_range(Drop(s, LeadDigits(s)),
                                     Drop(e, LeadDigits(e)))
             IN  [i \in 1..Len(subs) |-> prefix \o subs[i]]
        ELSE IF IsAlpha(s) /\ IsAlpha(e)
        THEN alpha_range(s, e)
        ELSE Fallback(s, e)

-----------------------------------------------------------------------------
(* Canonical identifiers: normalize_sid_global *)

\* one leading zero removed at most
StripOneZero(num) ==
    IF Len(num) >= 2 /\ Head(num) = "0" THEN Tail(num) ELSE num

\* str(int(num)): the digit string without its leading zeros
IntStr(num) == ToStr(ToInt(num))

\* re.match(r"^(\d+)([A-Z]+)0*(\d+)$", sid_up)
IsDigitsAlphaNum(s) ==
    LET d == LeadDigits(s)
        l == LeadUpper(Drop(s, d))
    IN  /\ d >= 1
        /\ l >= 1
        /\ d + l < Len(s)
        /\ AllDigits(Drop(s, d + l))

\* re.match(r"^([A-Z]+)0*(\d+)$", sid_up)
IsAlphaNum(s) ==
    LET l == LeadUpper(s)
    IN  l >= 1 /\ l < Len(s) /\ AllDigits(Drop(s, l))

normalize_sid_global(sid) ==
    LET sid_up == Upper(Strip(sid))
    IN  IF IsGSToken(sid_up)
        THEN GS \o IntStr(Drop(sid_up, 2))
        ELSE IF IsDigitsAlphaNum(sid_up)
        THEN LET k == LeadDigits(sid_up) + LeadUpper(Drop(sid_up, LeadDigits(sid_up)))
             IN  Take(sid_up, k) \o IntStr(Drop(sid_up, k))
        ELSE IF IsAlphaNum(sid_up)
        THEN Take(sid_up, LeadUpper(sid_up))
                \o IntStr(Drop(sid_up, LeadUpper(sid_up)))
        ELSE IF IsNumeric(sid_up)
        THEN IntStr(sid_up)
        ELSE sid_up

-----------------------------------------------------------------------------
(* Numbers in text: the two number patterns of parse_cht *)

IsSign(c) == c \in {"+", "-"}

\* the number of digits of s from position i on
RECURSIVE DigitsFrom(_, _)
DigitsFrom(s, i) ==
    IF i <= Len(s) /\ IsDigit(s[i]) THEN 1 + DigitsFrom(s, i + 1) ELSE 0

\* [-+]?\d*\.?\d+ matched at position i: the position of the last character
\* of the match, 0 when there is none
PlainNumberEnd(s, i) ==
    LET j  == IF i <= Len(s) /\ IsSign(s[i]) THEN i + 1 ELSE i
        d1 == DigitsFrom(s, j)
        k  == j + d1
        d2 == IF k <= Len(s) /\ s[k] = "." THEN DigitsFrom(s, k + 1) ELSE 0
    IN  IF d2 >= 1 THEN k + d2
        ELSE IF d1 >= 1 THEN k - 1
        ELSE 0

\* [-+]?\d*\.?\d+(?:[eE][-+]?\d+)? matched at position i
NumberEnd(s, i) ==
    LET m  == PlainNumberEnd(s, i)
        j  == IF m + 2 <= Len(s) /\ IsSign(s[m + 2]) THEN m + 3 ELSE m + 2
        d  == DigitsFrom(s, j)
    IN  IF m = 0 THEN 0
        ELSE IF m + 1 <= Len(s) /\ s[m + 1] \in {"e", "E"} /\ d >= 1
        THEN j + d - 1
        ELSE m

\* re.findall(number, s) from position i on
RECURSIVE FindNumbers(_, _)
FindNumbers(s, i) ==
    IF i > Len(s) THEN <<>>
    ELSE IF NumberEnd(s, i) = 0 THEN FindNumbers(s, i + 1)
    ELSE <<SubSeq(s, i, NumberEnd(s, i))>>
            \o FindNumbers(s, NumberEnd(s, i) + 1)

\* the token is one plain number and nothing else
IsPlainNumber(tok) == Len(tok) >= 1 /\ PlainNumberEnd(tok, 1) = Len(tok)

\* the token starts with a plain number
StartsWithNumber(tok) == Len(tok) >= 1 /\ PlainNumberEnd(tok, 1) >= 1

\* 10^k
RECURSIVE Pow10(_)
Pow10(k) == IF k <= 0 THEN 1 ELSE 10 * Pow10(k - 1)

\* float(num) in thousandths, for a number of at most three decimals
NumValue(num) ==
    LET neg  == num # <<>> /\ num[1] = "-"
        j    == IF num # <<>> /\ IsSign(num[1]) THEN 2 ELSE 1
        d1   == DigitsFrom(num, j)
        k    == j + d1
        d2   == IF k <= Len(num) /\ num[k] = "." THEN DigitsFrom(num, k + 1) ELSE 0
        ip   == ToInt(SubSeq(num, j, k - 1))
        fr   == IF d2 = 0 THEN 0
                ELSE IF d2 <= 3
                THEN ToInt(SubSeq(num, k + 1, k + d2)) * Pow10(3 - d2)
                ELSE ToInt(SubSeq(num, k + 1, k + 3))
        m    == IF d2 >= 1 THEN k + d2 ELSE k - 1
        eneg == m + 2 <= Len(num) /\ num[m + 2] = "-"
        ej   == IF m + 2 <= Len(num) /\ IsSign(num[m + 2]) THEN m + 3 ELSE m + 2
        ex   == IF m + 1 <= Len(num) THEN ToInt(SubSeq(num, ej, Len(num))) ELSE 0
        mant == ip * 1000 + fr
        mag  == IF eneg THEN mant \div Pow10(ex) ELSE mant * Pow10(ex)
    IN  IF neg THEN -mag ELSE mag

-----------------------------------------------------------------------------
(* LayoutParser: parse_cht.  A layout text is a sequence of lines, a line a *)
(* sequence of tokens separated by single blanks.                          *)

\* re.findall(number, line): numbers never span a blank
RECURSIVE LineNumbers(_)
LineNumbers(line) ==
    IF line = <<>> THEN <<>>
    ELSE FindNumbers(Head(line), 1) \o LineNumbers(Tail(line))

\* ln.strip().upper().startswith('F ')
IsFLine(line) == Len(line) >= 2 /\ Upper(line[1]) = <<"F">>

\* the first line that starts with 'F ', 0 when there is none
RECURSIVE FirstFLine(_, _)
FirstFLine(txt, i) ==
    IF i > Len(txt) THEN 0
    ELSE IF IsFLine(txt[i]) THEN i
    ELSE FirstFLine(txt, i + 1)

\* while (len(nums) - start) % 2 != 0 and start < len(nums): start += 1
PairStart(nums) == IF Len(nums) % 2 # 0 THEN 1 ELSE 0

\* coords = [(nums[i], nums[i+1]) for i in range(start, len(nums) - 1, 2)]
CoordPairs(nums) ==
    LET start == PairStart(nums)
    IN  [i \in 1..((Len(nums) - start) \div 2) |->
            <<NumValue(nums[start + 2 * i - 1]), NumValue(nums[start + 2 * i])>>]

SetMin(S) == CHOOSE x \in S : \A y \in S : x <= y

SetMax(S) == CHOOSE x \in S : \A y \in S : x >= y

\* the bounding box of three points, clockwise from top-left
BoundingBox(coords) ==
    LET xs == {coords[i][1] : i \in 1..Len(coords)}
        ys == {coords[i][2] : i \in 1..Len(coords)}
    IN  <<<<SetMin(xs), SetMin(ys)>>, <<SetMax(xs), SetMin(ys)>>,
          <<SetMax(xs), SetMax(ys)>>, <<SetMin(xs), SetMax(ys)>>>>

\* four coordinate pairs are asked for
EnoughCoordsFour(coords) == Len(coords) >= 4

\* the fiducial line carries enough coordinate pairs: neither branch raises
EnoughCoords(coords) == Len(coords) >= 4 \/ Len(coords) = 3

\* the coordinate pairs as they are given, however many
FiducialsAsGiven(coords) == coords

\* the four fiducials of an accepted fiducial line
Fiducials(coords) ==
    IF Len(coords) >= 4 THEN Take(coords, 4) ELSE BoundingBox(coords)

\* re.search(r'(?mi)^\s*BOX_SHRINK\s+([-+]?\d*\.?\d+)', txt)
BOX_SHRINK == <<"B","O","X","_","S","H","R","I","N","K">>

RECURSIVE BoxShrink(_, _)
BoxShrink(txt, i) ==
    IF i > Len(txt) THEN 0
    ELSE IF /\ Len(txt[i]) >= 2
            /\ Upper(txt[i][1]) = BOX_SHRINK
            /\ StartsWithNumber(txt[i][2])
    THEN NumValue(Take(txt[i][2], PlainNumberEnd(txt[i][2], 1)))
    ELSE BoxShrink(txt, i + 1)

\* the tokens of the text from line i on, each with the line it stands on
RECURSIVE TokensFrom(_, _)
TokensFrom(txt, i) ==
    IF i > Len(txt) THEN <<>>
    ELSE [k \in 1..Len(txt[i]) |-> [tok |-> txt[i][k], line |-> i]]
            \o TokensFrom(txt, i + 1)

\* area_re matched at the start of line i: an X or Y token, four label
\* tokens, five plain numbers and a token that starts with a plain number
AreaMatches(txt, i) ==
    LET ts == TokensFrom(txt, i)
    IN  /\ txt[i] # <<>>
        /\ Len(ts) >= 11
        /\ Upper(ts[1].tok) \in {<<"X">>, <<"Y">>}
        /\ \A k \in 6..10 : IsPlainNumber(ts[k].tok)
        /\ StartsWithNumber(ts[11].tok)

\* is_prefixed_alpha: re.match(r'^\d+[A-Z]$', label, re.I)
is_prefixed_alpha(label) ==
    /\ Len(label) >= 2
    /\ AllDigits(Take(label, Len(label) - 1))
    /\ IsUpper(UpperChar(label[Len(label)]))

LabelMode(xstart, xend, ystart, yend) ==
    IF is_prefixed_alpha(xstart) \/ is_prefixed_alpha(xend) THEN "prefixed_x"
    ELSE IF is_prefixed_alpha(ystart) \/ is_prefixed_alpha(yend) THEN "prefixed_y"
    ELSE "none"

\* the area dictionary of a matched area declaration
AreaOf(txt, i) ==
    LET ts == TokensFrom(txt, i)
        g6 == [k \in 1..6 |->
                  IF k < 6 THEN ts[5 + k].tok
                  ELSE Take(ts[11].tok, PlainNumberEnd(ts[11].tok, 1))]
    IN  [axis   |-> Upper(ts[1].tok),
         xstart |-> ts[2].tok, xend |-> ts[3].tok,
         ystart |-> ts[4].tok, yend |-> ts[5].tok,
         tile_x |-> NumValue(g6[1]), tile_y |-> NumValue(g6[2]),
         pre_x  |-> NumValue(g6[3]), pre_y  |-> NumValue(g6[4]),
         post_x |-> NumValue(g6[5]), post_y |-> NumValue(g6[6]),
         label_mode |-> LabelMode(ts[2].tok, ts[3].tok, ts[4].tok, ts[5].tok)]

\* area_re.finditer(txt): the matches in text order, none overlapping
RECURSIVE ParseAreas(_, _)
ParseAreas(txt, i) ==
    IF i > Len(txt) THEN <<>>
    ELSE IF AreaMatches(txt, i)
    THEN <<AreaOf(txt, i)>> \o ParseAreas(txt, TokensFrom(txt, i)[11].line + 1)
    ELSE ParseAreas(txt, i + 1)

NoCht == [status |-> "none", fids |-> <<>>, box_shrink |-> 0, areas |-> <<>>]

\* parse_cht: the layout, or the RuntimeError it raises
parse_cht(txt) ==
    LET f      == FirstFLine(txt, 1)
        coords == CoordPairs(LineNumbers(txt[f]))
        areas  == ParseAreas(txt, 1)
    IN  IF f = 0
        THEN [NoCht EXCEPT !.status = "no_fiducial_line"]
        ELSE IF ~EnoughCoords(coords)
        THEN [NoCht EXCEPT !.status = "insufficient_pairs"]
        ELSE IF areas = <<>>
        THEN [NoCht EXCEPT !.status = "no_areas"]
        ELSE [status |-> "ok", fids |-> Fiducials(coords),
              box_shrink |-> BoxShrink(txt, 1), areas |-> areas]

-----------------------------------------------------------------------------
(* ReferenceParser: parse_it8_or_cie.  A reference text is its format     *)
(* block (column names, upper-cased), its two data block delimiters and   *)
(* the rows of tokens written between them.                                *)

\* the first position of a sequence of truth values that is TRUE, 0 (None)
\* if there is none
FirstIndex(hits) ==
    IF \E i \in 1..Len(hits) : hits[i]
    THEN CHOOSE i \in 1..Len(hits) : hits[i] /\ \A j \in 1..(i - 1) : ~hits[j]
    ELSE 0

\* for candidate in (...): if candidate in fmt_upper: label_cols.append(index)
LabelCandidates == <<"SAMPLE_LOC", "SAMPLE_LABEL", "SAMPLE_NAME", "SAMPLE_ID">>

RECURSIVE LabelColsFrom(_, _)
LabelColsFrom(fmt, c) ==
    IF c > Len(LabelCandidates) THEN <<>>
    ELSE LET at == FirstIndex([i \in 1..Len(fmt) |-> fmt[i] = LabelCandidates[c]])
         IN  (IF at # 0 THEN <<at>> ELSE <<>>) \o LabelColsFrom(fmt, c + 1)

label_cols(fmt) == LabelColsFrom(fmt, 1)

\* idxL / idxA / idxB with their fallback patterns; X stands for L, A or B.
\* Column names are whole strings here, so startswith('LAB_' + X) is the
\* membership in the names of that form.
LabIndex(fmt, X) ==
    LET main == FirstIndex([i \in 1..Len(fmt) |->
                    fmt[i] \in {"LAB_" \o X, "LAB_" \o X \o "*", X}])
        alt  == FirstIndex([i \in 1..Len(fmt) |->
                    fmt[i] \in {X \o "*", "LAB_" \o X, "LAB-" \o X, "LAB" \o X,
                                "LCH_" \o X}])
    IN  IF main # 0 THEN main ELSE alt

\* idxR .. idxZ: f in (prefix + X, X)
NamedIndex(fmt, prefix, X) ==
    FirstIndex([i \in 1..Len(fmt) |-> fmt[i] \in {prefix \o X, X}])

\* the channel indices (i1, i2, i3) of the colour space, 0 for None
ChannelIndices(fmt, color_space) ==
    IF color_space = "rgb"
    THEN <<NamedIndex(fmt, "RGB_", "R"), NamedIndex(fmt, "RGB_", "G"),
           NamedIndex(fmt, "RGB_", "B")>>
    ELSE IF color_space = "xyz"
    THEN <<NamedIndex(fmt, "XYZ_", "X"), NamedIndex(fmt, "XYZ_", "Y"),
           NamedIndex(fmt, "XYZ_", "Z")>>
    ELSE <<LabIndex(fmt, "L"), LabIndex(fmt, "A"), LabIndex(fmt, "B")>>

SpaceOf(color_space) ==
    IF color_space \in {"rgb", "xyz"} THEN color_space ELSE "lab"

\* re.match(r'^[A-Z0-9]+$', candidate, flags=re.I)
IsPlausibleLabel(s) ==
    Len(s) >= 1 /\ \A i \in 1..Len(s) : IsDigit(s[i]) \/ IsUpper(UpperChar(s[i]))

\* the sample identifier of a data row
RECURSIVE SidFromCols(_, _)
SidFromCols(parts, cols) ==
    IF cols = <<>> THEN <<>>
    ELSE IF /\ Head(cols) <= Len(parts)
            /\ IsPlausibleLabel(Strip(StripQuotes(parts[Head(cols)])))
    THEN Strip(StripQuotes(parts[Head(cols)]))
    ELSE SidFromCols(parts, Tail(cols))

RowSid(parts, fmt) ==
    IF SidFromCols(parts, label_cols(fmt)) # <<>>
    THEN SidFromCols(parts, label_cols(fmt))
    ELSE Strip(StripQuotes(parts[1]))

\* float(tok) succeeds, for tokens written as plain decimal numbers
IsFloat(tok) == Len(tok) >= 1 /\ NumberEnd(tok, 1) = Len(tok)

\* vals: float(tok) where it converts (in thousandths), the token otherwise
RowVals(parts) ==
    [i \in 1..Len(parts) |->
        [num |-> IsFloat(parts[i]),
         v   |-> IF IsFloat(parts[i]) THEN NumValue(parts[i]) ELSE 0,
         tok |-> parts[i]]]

\* the data block found up to the end of the text when END_DATA is missing
DataRowsNoEnd(txt) == IF txt.begin_data THEN txt.rows ELSE <<>>

\* re.search(r'(?ms)^\s*BEGIN_DATA\b(.*?)^\s*END_DATA\b', txt): the rows of
\* the data block, none when a delimiter is missing
DataRows(txt) == IF txt.begin_data /\ txt.end_data THEN txt.rows ELSE <<>>

\* a table in which the first row of an identifier is the one kept
RECURSIVE DataMapFirstWins(_, _, _)
DataMapFirstWins(rows, fmt, color_space) ==
    IF rows = <<>> THEN <<>>
    ELSE LET row   == rows[Len(rows)]
             before == DataMapFirstWins(Take(rows, Len(rows) - 1), fmt, color_space)
             idx   == ChannelIndices(fmt, color_space)
             entry == [vals |-> RowVals(row), space |-> SpaceOf(color_space),
                       i1 |-> idx[1], i2 |-> idx[2], i3 |-> idx[3]]
         IN  IF Len(row) < 2 \/ Head(row[1]) = "#" THEN before
             ELSE before @@ (Upper(RowSid(row, fmt)) :> entry)

\* data_map[sid.upper()] = entry, for every row of two tokens or more
RECURSIVE DataMap(_, _, _)
DataMap(rows, fmt, color_space) ==
    IF rows = <<>> THEN <<>>
    ELSE LET row   == rows[Len(rows)]
             before == DataMap(Take(rows, Len(rows) - 1), fmt, color_space)
             idx   == ChannelIndices(fmt, color_space)
             entry == [vals |-> RowVals(row), space |-> SpaceOf(color_space),
                       i1 |-> idx[1], i2 |-> idx[2], i3 |-> idx[3]]
         IN  IF Len(row) < 2 \/ Head(row[1]) = "#" THEN before
             ELSE (Upper(RowSid(row, fmt)) :> entry) @@ before

\* parse_it8_or_cie: fmt and data_map (it raises nothing)
parse_it8_or_cie(txt, color_space) ==
    [fmt |-> txt.fmt, data_map |-> DataMap(DataRows(txt), txt.fmt, color_space)]

-----------------------------------------------------------------------------
(* Lookup and patch identifiers: find_vals_for_sid, make_patch_label *)

NoKey == <<>>

\* re.match(r'^([A-Z]+)(0*)(\d+)$', s): the candidates prefix + num:0{w}d
\* for w in (1, 2, 3), then prefix + num
LookupWidths == <<1, 2, 3>>

\* the only candidate is the identifier with a zero appended
AppendedZero(s) == <<s \o <<"0">>>>

VariantKeys(s) ==
    LET l   == LeadUpper(s)
        num == ToInt(Drop(s, l))
    IN  IF IsAlphaNum(s)
        THEN [w \in 1..Len(LookupWidths) |-> Take(s, l) \o Pad(num, LookupWidths[w])]
                \o <<Take(s, l) \o ToStr(num)>>
        ELSE <<>>

\* the keys tried for the upper-cased identifier s, in order
CandidateKeys(s) == <<s>> \o VariantKeys(s)

\* find_vals_for_sid: the key of the entry returned, NoKey for None.  The GS
\* pattern and the letter-number pattern give the same candidates for a GS
\* identifier, so VariantKeys stands for both.
find_vals_for_sid(dm, x) ==
    LET s    == Upper(Strip(x))
        cand == CandidateKeys(s)
        at   == FirstIndex([i \in 1..Len(cand) |-> cand[i] \in DOMAIN dm])
    IN  IF x = <<>> \/ at = 0 THEN NoKey ELSE cand[at]

\* str.isalpha() / str.isdigit() of the first character
StartsAlpha(s) == IsUpper(UpperChar(s[1]))

StartsDigit(s) == IsDigit(s[1])

\* row label then column label, whatever the mode and the labels
RowThenColumn(area, rlabel, clabel) == normalize_sid_global(rlabel \o clabel)

make_patch_label(area, rlabel, clabel) ==
    IF rlabel = Sentinel THEN normalize_sid_global(clabel)
    ELSE IF clabel = Sentinel THEN normalize_sid_global(rlabel)
    ELSE IF area.label_mode = "prefixed_y" THEN normalize_sid_global(rlabel \o clabel)
    ELSE IF area.label_mode = "prefixed_x" THEN normalize_sid_global(clabel \o rlabel)
    ELSE IF StartsAlpha(rlabel) /\ StartsDigit(clabel)
    THEN normalize_sid_global(rlabel \o clabel)
    ELSE IF StartsDigit(rlabel) /\ StartsAlpha(clabel)
    THEN normalize_sid_global(clabel \o rlabel)
    ELSE normalize_sid_global(rlabel \o clabel)

-----------------------------------------------------------------------------
(* ColorResolver as recreate() applies it to a patch.  A colour is the      *)
(* triple c (thousandths) divided by div; kind tells how it was obtained:   *)
(* "gray" the fallback, "lab" / "xyz" converted by xyz_d50_to_srgb_intent   *)
(* from c, "rgb" the scaled record values, "raw" the plain numeric triple,  *)
(* "short" a triple of fewer than three values (painting it raises).        *)

Gray == [kind |-> "gray", c |-> <<500, 500, 500>>, div |-> 1]

\* detect_scale_for_space: 1 / factor, from the largest channel value
ScaleDivisor(dm, space) ==
    LET Usable(k) ==
            /\ dm[k].space = space
            /\ \A i \in {dm[k].i1, dm[k].i2, dm[k].i3} :
                   i # 0 /\ i <= Len(dm[k].vals) /\ dm[k].vals[i].num
        all == UNION {{dm[k].vals[dm[k].i1].v, dm[k].vals[dm[k].i2].v,
                       dm[k].vals[dm[k].i3].v} : k \in {q \in DOMAIN dm : Usable(q)}}
        vmax == SetMax(all)
    IN  IF all = {} THEN 1
        ELSE IF space = "xyz" THEN (IF vmax > 5000 THEN 100 ELSE 1)
        ELSE IF space = "rgb"
        THEN (IF vmax > 5000 /\ vmax <= 255000 THEN 255
              ELSE IF vmax > 255000 THEN 65535 ELSE 1)
        ELSE 1

\* the record's values after the identifier column: vals[1:4]
RawTripleAfterSid(vals) == SubSeq(vals, 2, IF Len(vals) < 4 THEN Len(vals) ELSE 4)

\* vals[:3]
RawTriple(vals) == Take(vals, IF Len(vals) < 3 THEN Len(vals) ELSE 3)

\* rgb = np.array([float(v) for v in vals[:3]]); if max > 1.5: rgb /= 255
PlainNumeric(vals) ==
    LET raw == RawTriple(vals)
        c   == [i \in 1..Len(raw) |-> raw[i].v]
        big == \E i \in 1..Len(raw) : raw[i].v > 1500
    IN  IF \E i \in 1..Len(raw) : ~raw[i].num THEN Gray
        ELSE [kind |-> IF Len(raw) < 3 THEN "short" ELSE "raw",
              c |-> c, div |-> IF big THEN 255 ELSE 1]

\* the colour of a patch whose lookup returned the entry under key
ResolveColour(dm, key, scale_div) ==
    IF key = NoKey THEN Gray
    ELSE LET rec  == dm[key]
             idx  == <<rec.i1, rec.i2, rec.i3>>
             okay == \A i \in 1..3 : idx[i] <= Len(rec.vals) /\ rec.vals[idx[i]].num
             c    == [i \in 1..3 |-> rec.vals[idx[i]].v]
         IN  IF \A i \in 1..3 : idx[i] # 0
             THEN IF ~okay THEN Gray
                  ELSE IF rec.space = "lab" THEN [kind |-> "lab", c |-> c, div |-> 1]
                  ELSE IF rec.space = "xyz"
                  THEN [kind |-> "xyz", c |-> c, div |-> scale_div]
                  ELSE [kind |-> "rgb", c |-> c, div |-> scale_div]
             ELSE PlainNumeric(rec.vals)

-----------------------------------------------------------------------------
(* recreate(): the patches of every area, and the report of missing ones *)

\* the labels exactly as generate_labels returns them
LabelsAsGenerated(start, end) == generate_labels(start, end)

\* labels of an axis as the patch loop uses them: ['_'] for a disabled axis
AxisLabels(start, end) ==
    IF generate_labels(start, end) = <<>> THEN <<Sentinel>>
    ELSE generate_labels(start, end)

\* the patches of one area, row by row
AreaPatches(area, dm, scale_div) ==
    LET lx == AxisLabels(area.xstart, area.xend)
        ly == AxisLabels(area.ystart, area.yend)
    IN  [n \in 1..(Len(lx) * Len(ly)) |->
            LET r   == ((n - 1) \div Len(lx)) + 1
                c   == ((n - 1) % Len(lx)) + 1
                id  == Upper(make_patch_label(area, ly[r], lx[c]))
                key == find_vals_for_sid(dm, id)
            IN  [sid |-> id, key |-> key, rgb |-> ResolveColour(dm, key, scale_div)]]

\* sample_order_list over all areas
RECURSIVE AllPatches(_, _, _)
AllPatches(areas, dm, scale_div) ==
    IF areas = <<>> THEN <<>>
    ELSE AreaPatches(Head(areas), dm, scale_div)
            \o AllPatches(Tail(areas), dm, scale_div)

\* missing_labels.add(sid.upper()) in the patch loop
MissingInLoop(patches) ==
    {patches[i].sid : i \in {j \in 1..Len(patches) : patches[j].key = NoKey}}

\* missing_labels = defined_labels - cie_labels, on normalized identifiers
MissingNormalized(patches, dm) ==
    {normalize_sid_global(patches[i].sid) : i \in 1..Len(patches)}
        \ {normalize_sid_global(k) : k \in DOMAIN dm}

\* explicit_labels: f"{rlabel}{clabel}".upper() over the raw labels
RECURSIVE ExplicitLabels(_)
ExplicitLabels(areas) ==
    IF areas = <<>> THEN {}
    ELSE LET lx == generate_labels(Head(areas).xstart, Head(areas).xend)
             ly == generate_labels(Head(areas).ystart, Head(areas).yend)
         IN  {Upper(ly[r] \o lx[c]) : r \in 1..Len(ly), c \in 1..Len(lx)}
                \cup ExplicitLabels(Tail(areas))

\* truly_missing, after the suppression by the declared patch counts
TrulyMissing(missing, areas, dm, exp_cht, exp_cie) ==
    LET measured == Cardinality({normalize_sid_global(k) : k \in DOMAIN dm})
        listed   == missing \cap ExplicitLabels(areas)
    IN  IF exp_cht # 0 /\ exp_cie # 0
        THEN IF exp_cht = exp_cie /\ exp_cie = measured THEN {} ELSE listed
        ELSE IF exp_cie # 0 /\ exp_cie = measured THEN {}
        ELSE listed

-----------------------------------------------------------------------------
(* GridBuilder: recreate(), lines 1502-1542 *)

\* numbers of the layout text are held in thousandths (25.625 = 25625)
TileDen == 10 * 10 * 10

\* total_w = ncols * tile_x * SX  (tile_x * SX for a disabled axis), as the
\* rational TotalNum / TotalDen
TotalNum(n, tile, s) == (IF n > 0 THEN n ELSE 1) * tile * s[1]

TotalDen(s) == TileDen * s[2]

\* base_w = int(math.floor(total_w / ncols))
base_w(n, tile, s) == Floor(TotalNum(n, tile, s), TotalDen(s) * n)

\* the remainder truncated: int(total_w - base_w * ncols)
remainder_floor(n, tile, s) ==
    Floor(TotalNum(n, tile, s) - base_w(n, tile, s) * n * TotalDen(s),
          TotalDen(s))

\* remainder_w = int(round(total_w - base_w * ncols))
remainder_w(n, tile, s) ==
    RoundHalfEven(TotalNum(n, tile, s) - base_w(n, tile, s) * n * TotalDen(s),
                  TotalDen(s))

\* widths = [base_w + (1 if i < remainder_w else 0) for i in range(ncols)]
widths(n, tile, s) ==
    [i \in 1..n |-> base_w(n, tile, s)
                    + (IF i - 1 < remainder_w(n, tile, s) THEN 1 ELSE 0)]

\* for w in widths: x_edges.append(x_edges[0] + w)      (not accumulated)
RECURSIVE AccumulateFromFirst(_, _)
AccumulateFromFirst(edges, ws) ==
    IF ws = <<>> THEN edges
    ELSE AccumulateFromFirst(Append(edges, edges[1] + Head(ws)), Tail(ws))

\* for w in widths: x_edges.append(x_edges[-1] + w)
RECURSIVE Accumulate(_, _)
Accumulate(edges, ws) ==
    IF ws = <<>> THEN edges
    ELSE Accumulate(Append(edges, edges[Len(edges)] + Head(ws)), Tail(ws))

\* the edges of one axis: start is start_x_px as a rational over 2 * TotalDen
GridEdges(n, tile, s, start) ==
    LET first == RoundHalfEven(start, 2 * TotalDen(s))
    IN  IF n > 0
        THEN Accumulate(<<first>>, widths(n, tile, s))
        ELSE <<first, RoundHalfEven(start + 2 * TotalNum(n, tile, s),
                                    2 * TotalDen(s))>>

\* the tile sizes, scale factors and origins the grid is built for
TileSizes == {500, 1000, 1500, 2500, 25625}

Scales == {<<1, 1>>, <<2480, 827>>, <<827, 2480>>, <<1654, 827>>}

PreUnits == {0, 26625}

OffsetHalves == {0, 1, 85}

\* start_x_px = pre_x * SX + offset_x, over 2 * TotalDen(s)
StartPx(pre, s, off) == 2 * pre * s[1] + off * TotalDen(s)

-----------------------------------------------------------------------------
(* recreate(), lines 1492-1601: the painted rectangles.  Two areas stand   *)
(* side by side on the same rows, so their patches share pixels exactly    *)
(* when their painted columns do.                                          *)

\* math.ceil of p / q, q > 0
Ceil(p, q) == -Floor(-p, q)

\* W = max(int(math.ceil(maxx + margin_px)), 400) for a page margin of 0;
\* maxx is a numerator over 2 * TotalDen(s)
CanvasWidth(maxx, s) == Max2(Ceil(maxx, 2 * TotalDen(s)), 400)

\* shrink_x_px = box_shrink_units * SX
ShrinkPx(box_shrink, s) == <<box_shrink * s[1], TileDen * s[2]>>

\* x0c = max(0, min(W, x0f)); x1c = max(0, min(W, x1f)) for every column:
\* x0f = x_edges[c_idx], x1f = x_edges[c_idx + 1]
PatchColumns(edges, W) ==
    [c \in 1..(Len(edges) - 1) |->
        <<Max2(0, Min2(W, edges[c])), Max2(0, Min2(W, edges[c + 1]))>>]

\* the inputs: column counts, tile size, scale, origin, gap between the
\* areas (thousandths of a unit), offset (half pixels) and BOX_SHRINK
NoPaint == [n1 |-> 0, n2 |-> 0, tile |-> 1000, s |-> <<1, 1>>, pre |-> 0,
            gap |-> 0, off |-> 0, box_shrink |-> 0]

Gaps == {0, 500}

BoxShrinks == {0, 5000}

\* pre_x of the second area: the first area's end plus the gap
SecondPre(n, tile, pre, gap) == pre + (IF n > 0 THEN n ELSE 1) * tile + gap

-----------------------------------------------------------------------------
(* LabelVisibilityResolver: recreate(), lines 1072-1089 and 1610-1755.     *)
(* Horizontal positions are numerators over 2 * TotalDen(SX), vertical     *)
(* ones over 2 * TotalDen(SY); S is <<SX, SY>>, off is <<offset_x,         *)
(* offset_y>> in half pixels.                                              *)

\* len(generate_labels(start, end))
AxisCount(start, end) == Len(generate_labels(start, end))

\* area_bounds(a): the bounds of an area before any rounding
area_bounds(a, S, off) ==
    LET left == StartPx(a.pre_x, S[1], off[1])
        top  == StartPx(a.pre_y, S[2], off[2])
    IN  [left   |-> left,
         top    |-> top,
         right  |-> left + 2 * TotalNum(AxisCount(a.xstart, a.xend), a.tile_x, S[1]),
         bottom |-> top + 2 * TotalNum(AxisCount(a.ystart, a.yend), a.tile_y, S[2])]

\* left_px, right_px, top_px, bottom_px: the first and last rounded grid edge
PixelBounds(a, S, off) ==
    LET xe == GridEdges(AxisCount(a.xstart, a.xend), a.tile_x, S[1],
                        StartPx(a.pre_x, S[1], off[1]))
        ye == GridEdges(AxisCount(a.ystart, a.yend), a.tile_y, S[2],
                        StartPx(a.pre_y, S[2], off[2]))
    IN  [left_px |-> xe[1], right_px |-> xe[Len(xe)],
         top_px |-> ye[1], bottom_px |-> ye[Len(ye)]]

\* horiz_gap / vert_gap on two bounds: the gap, 0 when touching, -1 on overlap
horiz_gap(b1, b2) ==
    IF b1.right <= b2.left THEN b2.left - b1.right
    ELSE IF b2.right <= b1.left THEN b1.left - b2.right
    ELSE -1

vert_gap(b1, b2) ==
    IF b1.bottom <= b2.top THEN b2.top - b1.bottom
    ELSE IF b2.bottom <= b1.top THEN b1.top - b2.bottom
    ELSE -1

horiz_overlap(b1, b2) == ~(b1.right <= b2.left \/ b2.right <= b1.left)

vert_overlap(b1, b2) == ~(b1.bottom <= b2.top \/ b2.bottom <= b1.top)

AllSides == [L |-> TRUE, R |-> TRUE, T |-> TRUE, B |-> TRUE]

NoSides == [L |-> FALSE, R |-> FALSE, T |-> FALSE, B |-> FALSE]

\* the flags of an area with the bounds me and the grid edges px, given the
\* bounds obs of the other areas: a side is hidden when some neighbour within
\* the clearance lies on that side
SidesShown(me, px, obs, DX, DY, clearance) ==
    LET HorizNear(j) ==
            /\ horiz_gap(me, obs[j]) >= 0
            /\ horiz_gap(me, obs[j]) < clearance[1] * DX
            /\ vert_overlap(me, obs[j])
        VertNear(j) ==
            /\ vert_gap(me, obs[j]) >= 0
            /\ vert_gap(me, obs[j]) < clearance[2] * DY
            /\ horiz_overlap(me, obs[j])
        OnRight(j) == px.right_px * DX <= obs[j].left
        OnLeft(j)  == ~OnRight(j) /\ obs[j].right <= px.left_px * DX
        Below(j)   == px.bottom_px * DY <= obs[j].top
        Above(j)   == ~Below(j) /\ obs[j].bottom <= px.top_px * DY
    IN  [L |-> ~\E j \in DOMAIN obs : HorizNear(j) /\ OnLeft(j),
         R |-> ~\E j \in DOMAIN obs : HorizNear(j) /\ OnRight(j),
         T |-> ~\E j \in DOMAIN obs : VertNear(j) /\ Above(j),
         B |-> ~\E j \in DOMAIN obs : VertNear(j) /\ Below(j)]

\* the flags of area i after the loop over every other area (the bounds of
\* each area are computed once)
NeighbourFlags(areas, i, S, off, clearance) ==
    CHOOSE flags \in
        {SidesShown(me, px, obs, 2 * TotalDen(S[1]), 2 * TotalDen(S[2]), clearance) :
            me \in {area_bounds(areas[i], S, off)},
            px \in {PixelBounds(areas[i], S, off)},
            obs \in {[j \in (1..Len(areas)) \ {i} |-> area_bounds(areas[j], S, off)]}} :
        TRUE

\* the position of the first "=" of an entry, 0 if there is none
EqualsAt(entry) == FirstIndex([i \in 1..Len(entry) |-> entry[i] = "="])

AllWord == <<"A", "L", "L">>

NoneWord == <<"N", "O", "N", "E">>

\* manual_label_visibility: area id -> ALL, NONE or the valid side letters
RECURSIVE manual_label_visibility(_)
manual_label_visibility(entries) ==
    IF entries = <<>> THEN <<>>
    ELSE LET entry   == entries[Len(entries)]
             before  == manual_label_visibility(Take(entries, Len(entries) - 1))
             k       == EqualsAt(entry)
             area_id == Upper(Strip(Take(entry, k - 1)))
             flags   == Upper(Strip(Drop(entry, k)))
             IsSide(ch) == ch \in {"L", "T", "R", "B"}
             filtered == SelectSeq(flags, IsSide)
         IN  IF k = 0 THEN before
             ELSE IF flags \in {AllWord, NoneWord} THEN (area_id :> flags) @@ before
             ELSE IF filtered # <<>> THEN (area_id :> filtered) @@ before
             ELSE before

\* the flags of the neighbour detection, whatever the caller's entries
OverrideNotApplied(flags, a, manual) == flags

\* the manual override of an area, if its axis id is listed
ApplyOverride(flags, a, manual) ==
    LET axis_id == Upper(Strip(a.axis))
        InFlags(ch) == \E i \in 1..Len(manual[axis_id]) : manual[axis_id][i] = ch
    IN  IF axis_id \notin DOMAIN manual THEN flags
        ELSE IF manual[axis_id] = AllWord THEN AllSides
        ELSE IF manual[axis_id] = NoneWord THEN NoSides
        ELSE [L |-> InFlags("L"), R |-> InFlags("R"),
              T |-> InFlags("T"), B |-> InFlags("B")]

\* auto-suppress: one row hides left and right, one column hides top and bottom
AutoSuppress(flags, a) ==
    LET one_row == Len(AxisLabels(a.ystart, a.yend)) = 1
        one_col == Len(AxisLabels(a.xstart, a.xend)) = 1
    IN  [L |-> flags.L /\ ~one_row, R |-> flags.R /\ ~one_row,
         T |-> flags.T /\ ~one_col, B |-> flags.B /\ ~one_col]

\* draw_left_labels .. draw_bottom_labels of area i when its labels are drawn
LabelFlags(areas, i, S, off, clearance, entries) ==
    AutoSuppress(
        ApplyOverride(NeighbourFlags(areas, i, S, off, clearance), areas[i],
                      manual_label_visibility(entries)),
        areas[i])

-----------------------------------------------------------------------------
(* ScaleResolver: detect_best_a4_dpi and the scale factors of recreate().  *)
(* Chart extents are in thousandths of a unit, DPIs given by the caller in *)
(* tenths of a dpi (0 = none given), margins in whole millimetres.         *)

\* A4 width and height in pixels at the standard DPIs
A4_DPI_TABLE ==
    (72 :> <<595, 842>>) @@ (96 :> <<794, 1123>>) @@ (100 :> <<827, 1169>>)
    @@ (120 :> <<992, 1403>>) @@ (150 :> <<1240, 1754>>) @@ (200 :> <<1654, 2339>>)
    @@ (250 :> <<2067, 2923>>) @@ (300 :> <<2480, 3508>>) @@ (600 :> <<4961, 7016>>)
    @@ (1200 :> <<9921, 14031>>)

\* margin_px = int(round(margin_mm * (dpi / 25.4)))
MarginPx(margin_mm, dpi) == RoundHalfEven(margin_mm * dpi * 10, 254)

\* fits_portrait or fits_landscape at this dpi
FitsPage(w, h, margin_mm, dpi) ==
    LET aw == A4_DPI_TABLE[dpi][1] * TileDen
        ah == A4_DPI_TABLE[dpi][2] * TileDen
        total_w == w + 2 * MarginPx(margin_mm, dpi) * TileDen
        total_h == h + 2 * MarginPx(margin_mm, dpi) * TileDen
    IN  \/ total_w <= aw /\ total_h <= ah
        \/ total_w <= ah /\ total_h <= aw

\* the largest table DPI the chart fits
DetectLargestFit(w, h, margin_mm) ==
    LET fitting == {d \in DOMAIN A4_DPI_TABLE : FitsPage(w, h, margin_mm, d)}
    IN  IF fitting = {} THEN SetMax(DOMAIN A4_DPI_TABLE) ELSE SetMax(fitting)

\* detect_best_a4_dpi: the first fitting DPI in increasing order, else the largest
detect_best_a4_dpi(w, h, margin_mm) ==
    LET fitting == {d \in DOMAIN A4_DPI_TABLE : FitsPage(w, h, margin_mm, d)}
    IN  IF fitting = {} THEN SetMax(DOMAIN A4_DPI_TABLE) ELSE SetMin(fitting)

\* the target DPI if given, otherwise the table's smallest DPI
UsedDpiScreen(target) == IF target # 0 THEN target ELSE 72 * 10

\* used_dpi = float(target_dpi) if given, otherwise 300.0 (in tenths)
UsedDpi(target) == IF target # 0 THEN target ELSE 300 * 10

\* A4_DPI_TABLE.get(int(round(dpi)), (int(210/25.4*dpi), int(297/25.4*dpi)))
\* for a dpi in tenths
PagePixels(dpi) ==
    IF RoundHalfEven(dpi, 10) \in DOMAIN A4_DPI_TABLE
    THEN A4_DPI_TABLE[RoundHalfEven(dpi, 10)]
    ELSE <<Floor(210 * dpi, 254), Floor(297 * dpi, 254)>>

RECURSIVE Gcd(_, _)
Gcd(a, b) == IF b = 0 THEN a ELSE Gcd(b, a % b)

\* a float quotient as a fraction <<numerator, denominator>> in lowest terms
Ratio(p, q) == <<p \div Gcd(p, q), q \div Gcd(p, q)>>

\* the product of two fractions, cancelled crosswise before multiplying
RatMul(r1, r2) ==
    LET g1 == Gcd(r1[1], r2[2])
        g2 == Gcd(r2[1], r1[2])
    IN  Ratio((r1[1] \div g1) * (r2[1] \div g2), (r1[2] \div g2) * (r2[2] \div g1))

RatDiv(r1, r2) == RatMul(r1, <<r2[2], r2[1]>>)

\* the plain DPI ratio used_dpi / detected_dpi for both axes
ScaleByDpiRatio(used, detected) ==
    <<Ratio(used, detected * 10), Ratio(used, detected * 10)>>

\* scale_x, scale_y as fractions:
\* dpi_ratio * (tgt / det) / (used_dpi / detected_dpi), or 1.0 for equal DPIs
ScaleFactors(used, detected) ==
    IF used = detected * 10 THEN <<<<1, 1>>, <<1, 1>>>>
    ELSE LET det == PagePixels(detected * 10)
             tgt == PagePixels(used)
             dpi_ratio == Ratio(used, detected * 10)
         IN  <<RatDiv(RatMul(dpi_ratio, Ratio(tgt[1], det[1])), Ratio(used, detected * 10)),
               RatDiv(RatMul(dpi_ratio, Ratio(tgt[2], det[2])), Ratio(used, detected * 10))>>

-----------------------------------------------------------------------------
(* Exact arithmetic for the colour conversions.  A natural of any size is  *)
(* the sequence of its limbs in base 1000, least significant first; an     *)
(* integer z is a pair <<p, n>> of naturals with z = p - n; a vector of    *)
(* three reals is three integers over one common natural denominator.      *)

BigBase == 10 * 10 * 10

\* the limbs of a natural that fits a machine integer
RECURSIVE BigOf(_)
BigOf(n) == IF n = 0 THEN <<>> ELSE <<n % BigBase>> \o BigOf(n \div BigBase)

\* without its most significant zero limbs
RECURSIVE BigTrim(_)
BigTrim(a) ==
    IF a # <<>> /\ a[Len(a)] = 0 THEN BigTrim(SubSeq(a, 1, Len(a) - 1)) ELSE a

Limb(a, i) == IF i <= Len(a) THEN a[i] ELSE 0

\* the carry that leaves position hi when the columns lo..hi take carry in
RECURSIVE CarryOut(_, _, _, _)
CarryOut(cols, lo, hi, carry) ==
    IF lo > hi THEN carry
    ELSE CarryOut(cols, lo + 1, hi, (cols[lo] + carry) \div BigBase)

\* the limbs of the columns lo..hi with carry coming in
RECURSIVE CarryLimbs(_, _, _, _)
CarryLimbs(cols, lo, hi, carry) ==
    IF lo > hi THEN <<>>
    ELSE <<(cols[lo] + carry) % BigBase>>
            \o CarryLimbs(cols, lo + 1, hi, (cols[lo] + carry) \div BigBase)

\* carries propagated through the column sums, 16 columns at a time
RECURSIVE BigCarry(_, _, _)
BigCarry(cols, lo, carry) ==
    IF lo > Len(cols) THEN BigOf(carry)
    ELSE LET hi == Min2(Len(cols), lo + 15)
         IN  CarryLimbs(cols, lo, hi, carry)
                \o BigCarry(cols, hi + 1, CarryOut(cols, lo, hi, carry))

BigAdd(a, b) ==
    BigCarry([i \in 1..Max2(Len(a), Len(b)) |-> Limb(a, i) + Limb(b, i)], 1, 0)

\* the sum of a[i] * b[k + 1 - i] for i in lo..hi
RECURSIVE Column(_, _, _, _, _)
Column(a, b, k, lo, hi) ==
    IF lo > hi THEN 0
    ELSE IF lo = hi THEN a[lo] * b[k + 1 - lo]
    ELSE Column(a, b, k, lo, (lo + hi) \div 2)
            + Column(a, b, k, (lo + hi) \div 2 + 1, hi)

BigMul(a, b) ==
    IF a = <<>> \/ b = <<>> THEN <<>>
    ELSE BigTrim(BigCarry(
            [k \in 1..(Len(a) + Len(b) - 1) |->
                Column(a, b, k, Max2(1, k + 1 - Len(b)), Min2(k, Len(a)))], 1, 0))

\* a >= b
BigGe(a, b) ==
    \/ Len(a) > Len(b)
    \/ a = b
    \/ /\ Len(a) = Len(b)
       /\ \E i \in 1..Len(a) :
            /\ a[i] > b[i]
            /\ \A j \in (i + 1)..Len(a) : a[j] = b[j]

\* a - b for a >= b: borrows propagated from position i on
RECURSIVE BigBorrow(_, _, _, _)
BigBorrow(a, b, i, borrow) ==
    IF i > Len(a) THEN <<>>
    ELSE <<(a[i] - Limb(b, i) - borrow + BigBase) % BigBase>>
            \o BigBorrow(a, b, i + 1, IF a[i] - Limb(b, i) - borrow < 0 THEN 1 ELSE 0)

BigSub(a, b) == BigTrim(BigBorrow(a, b, 1, 0))

RECURSIVE BigPow(_, _)
BigPow(a, n) == IF n = 0 THEN <<1>> ELSE BigMul(a, BigPow(a, n - 1))

\* integers as differences p - n of naturals, one of them zero
ZOf(k) == IF k >= 0 THEN <<BigOf(k), <<>>>> ELSE <<<<>>, BigOf(-k)>>

ZNorm(z) ==
    IF BigGe(z[1], z[2]) THEN <<BigSub(z[1], z[2]), <<>>>>
    ELSE <<<<>>, BigSub(z[2], z[1])>>

ZAdd(x, y) == ZNorm(<<BigAdd(x[1], y[1]), BigAdd(x[2], y[2])>>)

ZMul(x, y) ==
    ZNorm(<<BigAdd(BigMul(x[1], y[1]), BigMul(x[2], y[2])),
            BigAdd(BigMul(x[1], y[2]), BigMul(x[2], y[1]))>>)

\* x >= y
ZGe(x, y) == BigGe(BigAdd(x[1], y[2]), BigAdd(y[1], x[2]))

\* the row of an integer matrix times a vector of integers
RowTimes(row, v) ==
    ZAdd(ZAdd(ZMul(ZOf(row[1]), v[1]), ZMul(ZOf(row[2]), v[2])),
         ZMul(ZOf(row[3]), v[3]))

MatVec(A, v) == <<RowTimes(A[1], v), RowTimes(A[2], v), RowTimes(A[3], v)>>

Ten4 == 10 * 10 * 10 * 10

Ten5 == 10 * Ten4

-----------------------------------------------------------------------------
(* ColorResolver: lab_to_xyz and xyz_d50_to_srgb_intent *)

\* D50 and D65 white points in units of 10^-5
D50 == <<96422, 100000, 82521>>

D65 == <<95047, 100000, 108883>>

\* the Bradford matrix M, the XYZ -> linear sRGB matrix M2, in units of 10^-4
M == <<<<8951, 2664, -1614>>, <<-7502, 17135, 367>>, <<389, -685, 10296>>>>

M2 == <<<<32406, -15372, -4986>>, <<-9689, 18758, 415>>, <<557, -2040, 10570>>>>

\* fx, fy, fz over the common denominator 116 * 500 = 58000:
\* fy = (L + 16) / 116, fx = fy + a / 500, fz = fy - b / 200
LabDen == 116 * 500

LabF(L, a, b) ==
    <<500 * (L + 16) + 116 * a, 500 * (L + 16), 500 * (L + 16) - 290 * b>>

\* invf(t) for t = f / 58000, over the denominator 58000^3:
\* t^3 if t > 6/29, else 3 * (6/29)^2 * (t - 4/29)
\*   = 108 * (f - 8000) / (841 * 58000) = 432000000 * (f - 8000) / 58000^3
invf(f) ==
    IF 29 * f > 6 * LabDen
    THEN ZMul(ZOf(f), ZMul(ZOf(f), ZOf(f)))
    ELSE ZMul(ZOf(432000000), ZOf(f - 8000))

\* lab_to_xyz: (xr * 0.96422, yr * 1.0, zr * 0.82521) as integers over the
\* denominator 58000^3 * 10^5
lab_to_xyz(L, a, b) ==
    [num |-> <<ZMul(invf(LabF(L, a, b)[1]), ZOf(D50[1])),
               ZMul(invf(LabF(L, a, b)[2]), ZOf(D50[2])),
               ZMul(invf(LabF(L, a, b)[3]), ZOf(D50[3]))>>,
     den |-> BigMul(BigPow(BigOf(LabDen), 3), BigOf(Ten5))]

\* M @ white in units of 10^-9 (machine integers)
MTimes(white) ==
    [i \in 1..3 |-> M[i][1] * white[1] + M[i][2] * white[2] + M[i][3] * white[3]]

\* the adjugate of M in units of 10^-8: Mi = adj(M) / det(M)
Minor(A, r1, r2, c1, c2) == A[r1][c1] * A[r2][c2] - A[r1][c2] * A[r2][c1]

Adjugate(A) ==
    <<<<Minor(A, 2, 3, 2, 3), -Minor(A, 1, 3, 2, 3), Minor(A, 1, 2, 2, 3)>>,
      <<-Minor(A, 2, 3, 1, 3), Minor(A, 1, 3, 1, 3), -Minor(A, 1, 2, 1, 3)>>,
      <<Minor(A, 2, 3, 1, 2), -Minor(A, 1, 3, 1, 2), Minor(A, 1, 2, 1, 2)>>>>

\* det(M) in units of 10^-12
Det(A) ==
    RowTimes(A[1], <<ZOf(Adjugate(A)[1][1]), ZOf(Adjugate(A)[2][1]),
                     ZOf(Adjugate(A)[3][1])>>)

\* adapt = Mi @ np.diag((M @ D65) / (M @ D50)) @ M applied in three steps.
\* M @ [X, Y, Z], in units of 10^-4 over the denominator of xyz
ConeResponse(xyz) == [num |-> MatVec(M, xyz.num), den |-> xyz.den]

\* np.diag((M @ D65) / (M @ D50)) times the cone responses: with p = M @ D65
\* and q = M @ D50 the quotients p[i] / q[i] are brought over the common
\* denominator q1 * q2 * q3
AdaptCone(w) ==
    LET pp == MTimes(D65)
        q == MTimes(D50)
    IN  [num |-> <<ZMul(w.num[1], ZMul(ZOf(pp[1]), ZMul(ZOf(q[2]), ZOf(q[3])))),
                   ZMul(w.num[2], ZMul(ZOf(pp[2]), ZMul(ZOf(q[1]), ZOf(q[3])))),
                   ZMul(w.num[3], ZMul(ZOf(pp[3]), ZMul(ZOf(q[1]), ZOf(q[2]))))>>,
         den |-> BigMul(w.den, BigMul(BigOf(q[1]), BigMul(BigOf(q[2]), BigOf(q[3]))))]

\* Mi @ s with Mi = np.linalg.inv(M) = 10^4 * adj / det for the integer
\* matrix; the 10^4 cancels the units of the cone responses
ConeToXyz(s) ==
    [num |-> MatVec(Adjugate(M), s.num), den |-> BigMul(s.den, Det(M)[1])]

\* rgb_lin = M2 @ [X_a, Y_a, Z_a]
LinearRgb(xa) ==
    [num |-> MatVec(M2, xa.num), den |-> BigMul(xa.den, BigOf(Ten4))]

\* intent.lower() in ("display", "perceptual", "relative") applies the gamma
GammaIntents == {"display", "perceptual", "relative"}

\* what comp_gamma needs of a linear value u = z / den to be compared:
\* u^5 * (1.055 * 65535)^12 and den^5 (where the gamma is applied), the sign
\* of u and its linear segment
GammaKey(z, den, intent) ==
    [positive |-> z[1] # <<>>,
     low  |-> BigGe(BigMul(BigOf(31308), den), BigMul(z[1], BigOf(Ten4 * 1000))),
     p    |-> z[1],
     den  |-> den,
     p5   |-> IF intent \in GammaIntents
              THEN BigMul(BigPow(z[1], 5), BigPow(BigOf(1055 * 65535), 12))
              ELSE <<>>,
     den5 |-> IF intent \in GammaIntents THEN BigPow(den, 5) ELSE <<>>]

\* comp_gamma(u) >= k / 65535 for k >= 1:
\*   0.0 for u <= 0, 12.92 * u for u <= 0.0031308,
\*   else 1.055 * u ** (1.0 / 2.4) - 0.055, that is
\*   u^5 >= ((k / 65535 + 0.055) / 1.055)^12
GammaAtLeast(key, k) ==
    /\ key.positive
    /\ IF key.low
       THEN BigGe(BigMul(key.p, BigOf(1292 * 65535)),
                  BigMul(key.den, BigOf(100 * k)))
       ELSE BigGe(key.p5, BigMul(BigPow(BigOf(1000 * k + 55 * 65535), 12), key.den5))

\* u >= k / 65535 for k >= 1: the linear value itself (absolute intent)
LinearAtLeast(key, k) ==
    /\ key.positive
    /\ BigGe(BigMul(key.p, BigOf(65535)), BigMul(key.den, BigOf(k)))

\* the value painted is at least k / 65535
RgbAtLeast(key, intent, k) ==
    IF intent \in GammaIntents
    THEN GammaAtLeast(key, k)
    ELSE LinearAtLeast(key, k)

\* the largest k in lo..hi with rgb >= k / 65535, given that it holds for lo
RECURSIVE LargestReached(_, _, _, _)
LargestReached(key, intent, lo, hi) ==
    IF lo = hi THEN lo
    ELSE IF RgbAtLeast(key, intent, (lo + hi + 1) \div 2)
    THEN LargestReached(key, intent, (lo + hi + 1) \div 2, hi)
    ELSE LargestReached(key, intent, lo, (lo + hi + 1) \div 2 - 1)

\* rgb16 = (np.clip(rgb, 0.0, 1.0) * 65535.0).astype(np.uint16) for one channel
Rgb16(key, intent) ==
    IF ~RgbAtLeast(key, intent, 1) THEN 0
    ELSE LargestReached(key, intent, 1, 65535)

-----------------------------------------------------------------------------
(* The inputs the operations are applied to *)

\* all strings over the characters cs of 1 to n characters
RECURSIVE Strings(_, _)
Strings(cs, n) ==
    IF n <= 0 THEN {}
    ELSE LET shorter == Strings(cs, n - 1)
         IN  {<<c>> : c \in cs} \cup shorter
                \cup {Append(s, c) : s \in shorter, c \in cs}

\* all sequences over the set S of 0 to n elements
RECURSIVE SeqsUpTo(_, _)
SeqsUpTo(S, n) ==
    IF n <= 0 THEN {<<>>}
    ELSE LET shorter == SeqsUpTo(S, n - 1)
         IN  shorter \cup {Append(s, x) : s \in shorter, x \in S}

\* label tokens: numbers, GS numbers, other prefixed numbers, letters
NumTokens == Strings({"0", "1", "2"}, MaxDigits)

LabelTokens ==
    NumTokens
    \cup {GS \o n : n \in NumTokens}
    \cup {<<"g", "s">> \o n : n \in Strings({"0", "1"}, MaxDigits)}
    \cup {<<"A">> \o n : n \in NumTokens}
    \cup {<<"A">>, <<"C">>, <<"Y">>, <<"A", "B">>, <<"2", "A">>, <<"2", "C">>,
          <<"3", "A">>, <<" ", "0", "1">>, <<"A", "-", "1">>, Sentinel,
          <<"y">>, <<"a", "-", "1">>}

\* identifiers given to normalize_sid_global
IdChars == {"G", "S", "a", "2", "0", "1", "\"", " "}

Identifiers == Strings(IdChars, MaxIdLen)

\* layout lines
n10 == <<"1", "0">>

n200 == <<"2", "0", "0">>

n150 == <<"1", "5", "0">>

n25_625 == <<"2", "5", ".", "6", "2", "5">>

n26_625 == <<"2", "6", ".", "6", "2", "5">>

FNumbers == <<n10, n10, n200, n10, n200, n150, n10, n150, n150, n200, n10, n200>>

FLineOf(k) == <<<<"F">>, Sentinel, Sentinel>> \o Take(FNumbers, k)

AreaHead == <<<<"Y">>, <<"0", "1">>, <<"0", "2">>, <<"A">>, <<"B">>>>

AreaLineY == AreaHead \o <<n25_625, n25_625, n26_625, n26_625, n25_625, n25_625>>

AreaLineX ==
    <<<<"x">>, <<"G", "S", "0", "0">>, <<"G", "S", "0", "1">>, Sentinel, Sentinel,
      n25_625, <<"5", "1", ".", "2", "5">>, <<"1", ".", "0">>,
      <<"3", "6", "0", ".", "5">>, n25_625, <<"0">>>>

AreaLineSeven == AreaLineY \o <<n10>>

AreaLineFive == AreaHead \o <<n25_625, n25_625, n26_625, n26_625, n25_625>>

AreaLineWord ==
    AreaHead \o <<n25_625, <<"a", "b">>, n26_625, n26_625, n25_625, n25_625>>

LayoutLines ==
    {FLineOf(k) : k \in 0..MaxFNums}
    \cup {AreaLineY, AreaLineX, AreaLineSeven, AreaLineFive, AreaLineWord,
          <<<<"F">>>>, <<BOX_SHRINK, <<"2">>>>}

LayoutTexts == SeqsUpTo(LayoutLines, MaxLines)


\* layout texts of whole charts: the F line and the lines of the areas
Geometry == <<n25_625, n25_625, n26_625, n26_625, n25_625, n25_625>>

ChartArea(xs, xe, ys, ye) == <<<<"Y">>, xs, xe, ys, ye>> \o Geometry

ChartPadded == ChartArea(<<"0", "1">>, <<"0", "2">>, <<"A">>, <<"A">>)

ChartGS == ChartArea(<<"G", "S", "0", "0">>, <<"G", "S", "0", "1">>, Sentinel, Sentinel)

ChartNumbers == ChartArea(<<"0", "1">>, <<"0", "2">>, Sentinel, Sentinel)

ChartPrefixed == ChartArea(<<"0", "1">>, <<"0", "1">>, <<"2", "A">>, <<"2", "A">>)

ChartSwapped == ChartArea(<<"A">>, <<"B">>, <<"1">>, <<"2">>)

ChartPlain == ChartArea(<<"1">>, <<"2">>, <<"A">>, <<"A">>)

ChartTexts ==
    {<<FLineOf(8), a>> : a \in {ChartPadded, ChartGS, ChartNumbers, ChartPrefixed,
                                ChartSwapped, ChartPlain}}
    \cup {<<FLineOf(8), ChartPadded, ChartGS>>, <<ChartPadded>>,
          <<FLineOf(4), ChartPadded>>, <<FLineOf(8)>>}

\* reference texts
NoCie == [fmt |-> <<>>, begin_data |-> FALSE, end_data |-> FALSE, rows |-> <<>>]

FmtLab == <<"SAMPLE_ID", "LAB_L", "LAB_A", "LAB_B">>

FmtNoB == <<"SAMPLE_ID", "LAB_L", "LAB_A">>

FmtXyz == <<"SAMPLE_ID", "XYZ_X", "XYZ_Y", "XYZ_Z">>

\* a format block and the colour space the run asks for
FormatAndSpace ==
    {<<<<>>, "lab">>, <<FmtLab, "lab">>, <<FmtNoB, "lab">>,
     <<FmtXyz, "xyz">>, <<FmtLab, "xyz">>}

v0 == <<"0">>

RowSet ==
    {<<<<"A", "0", "1">>, <<"5", "0">>, v0, v0>>,
     <<<<"\"", "a", "1", "\"">>, <<"6", "0">>, <<"1">>, <<"1">>>>,
     <<<<"A", "0", "0", "0", "1">>, <<"7", "0">>, <<"2">>, <<"2">>>>,
     <<<<"2", "A", "0", "1">>, <<"4", "0">>, v0, v0>>,
     <<<<"G", "S", "0", "1">>, <<"3", "0">>, v0, v0>>,
     <<<<"1">>, <<"1", "2", "8">>, <<"6", "4">>, <<"3", "2">>>>,
     <<<<"2">>, <<"x">>, v0, v0>>,
     <<<<"0", "1">>, <<"0", ".", "5">>, <<"0", ".", "5">>, <<"0", ".", "5">>>>,
     <<<<"2">>, <<"7">>>>,
     <<<<"a", "0", "1">>, <<"5", "5">>, v0, v0>>,
     <<<<"#">>, <<"A", "1">>>>}

RefBodies ==
    {[begin_data |-> TRUE, end_data |-> TRUE, rows |-> rs] :
        rs \in SeqsUpTo(RowSet, MaxRows)}
    \cup {[begin_data |-> b, end_data |-> FALSE, rows |-> rs] :
        b \in BOOLEAN, rs \in SeqsUpTo(RowSet, 1)}

\* the patch counts the layout file and the reference file declare
DeclaredCounts == {<<0, 0>>, <<0, 1>>, <<0, 2>>, <<1, 1>>, <<2, 2>>, <<2, 1>>}

\* areas for the label visibility: columns 1..cols, rows A.. (rows letters)
PlacedArea(axis, cols, rows, tile, px, py) ==
    [axis |-> axis,
     xstart |-> <<"1">>, xend |-> ToStr(cols),
     ystart |-> <<"A">>, yend |-> num_to_alpha(rows),
     tile_x |-> tile, tile_y |-> tile,
     pre_x |-> px, pre_y |-> py, post_x |-> 0, post_y |-> 0,
     label_mode |-> "normal"]

\* how the second area lies relative to the first
Placements ==
    {"right_touching", "right_near", "right_apart", "right_beside_lower",
     "below_touching"}

\* a pair of areas: the first of cols columns and rows rows at (pre, pre),
\* the second of the axis kind kind2
AreaPair(cols, rows, tile, pre, placement, kind2) ==
    LET w == cols * tile
        h == rows * tile
    IN  <<PlacedArea(<<"X">>, cols, rows, tile, pre, pre),
          PlacedArea(kind2, 2, rows, tile,
                     IF placement = "below_touching" THEN pre
                     ELSE IF placement = "right_apart" THEN pre + w + 100 * TileDen
                     ELSE IF placement = "right_near" THEN pre + w + 10 * TileDen
                     ELSE pre + w,
                     IF placement = "below_touching" THEN pre + h
                     ELSE IF placement = "right_beside_lower" THEN pre + h + TileDen
                     ELSE pre)>>

VisTiles == {1000, 25625}

\* offset_x = offset_y in half pixels
VisOffsets == {0, 1}

\* <<SX, SY>>: equal DPIs, and the page ratios of 100 -> 300 and 300 -> 100 dpi
ScalePairs ==
    {<<<<1, 1>>, <<1, 1>>>>, <<<<2480, 827>>, <<3508, 1169>>>>,
     <<<<827, 2480>>, <<1169, 3508>>>>}

\* clearance_w_px, clearance_h_px of an area: they follow the rendered size of
\* its own labels
Clearances == {<<1, 1>>, <<30, 30>>}

\* the clearances of the two areas: labels of the same size, or larger
\* labels on the first area
ClearancePairs ==
    {<<c, c>> : c \in Clearances} \cup {<<<<30, 30>>, <<1, 1>>>>}

\* the axis kind of the second area (the first is an X area)
SecondKinds == {<<"Y">>, <<"X">>}

\* --label_axis_visible entries
OverrideEntries ==
    {<<"X", "=", "A", "L", "L">>, <<"x", "=", "n", "o", "n", "e">>,
     <<"X", "=", "L", "T">>, <<"Y", "=", "R", "B">>, <<"Y", "=", "Q">>,
     <<"X", "B">>}

\* label_axis_visible: no entry, one entry, or two entries for the same area
OverrideLists ==
    {<<>>} \cup {<<e>> : e \in OverrideEntries}
    \cup {<<<<"X", "=", "A", "L", "L">>, <<"X", "=", "R">>>>}

\* chart widths and heights in thousandths of a unit, margins, target DPIs
ChartSides ==
    {100000, 509000, 509001, 595000, 700000, 756000, 827000, 1000000, 1169000,
     2000000, 9921000, 14031000, 20000000}

Margins == {0, 15}

TargetDpis == {0, 720, 1000, 1300, 3000, 3004, 12000}

\* label modes and the row and column labels of a cell
LabelModes == {"normal", "prefixed_x", "prefixed_y"}

CellLabels ==
    {Sentinel, <<"A">>, <<"a">>, <<"B", "0", "1">>, <<"1">>, <<"0", "2">>,
     <<"2", "A">>, <<"G", "S">>}

\* identifiers looked up, and the keys a lookup table may hold
LookupIds ==
    {<<>>, <<"A", "1">>, <<"a", "0", "1">>, <<" ", "A", "1", "0">>, <<"B", "1">>,
     <<"G", "S", "1">>, <<"G", "S", "0", "1">>, <<"A", "0", "0", "0", "1">>,
     <<"1">>, <<"2", "A", "1">>, <<"A", "B", "0", "2">>}

LookupKeys ==
    {<<"A", "1">>, <<"A", "0", "1">>, <<"A", "0", "0", "1">>, <<"A", "1", "0">>,
     <<"B", "1">>, <<"G", "S", "1">>, <<"G", "S", "0", "0", "1">>,
     <<"A", "0", "0", "0", "1">>, <<"0", "1">>, <<"2", "A", "0", "1">>,
     <<"A", "B", "2">>, <<"A", "B", "0", "2", "0">>}

\* lookup tables of at most two records
KeySets == {ks \in SUBSET LookupKeys : Cardinality(ks) <= 2}

\* Lab values and rendering intents
LabL == {0, 5, 25, 50, 75, 90, 100}

LabAB == {-50, 0, 20, 50}

\* every colour under the absolute intent, the neutral ones under display
ColourInputs ==
    {<<L, a, b, "absolute">> : L \in LabL, a \in LabAB, b \in LabAB}
    \cup {<<L, 0, 0, "display">> : L \in LabL}

-----------------------------------------------------------------------------
(* State machine *)

Init ==
    /\ pc = "start"
    /\ ncols = 0
    /\ tile_x = 1000
    /\ SX = <<1, 1>>
    /\ start_x_px = 0
    /\ x_edges = <<0, 1>>
    /\ tok_start = Sentinel
    /\ tok_end = Sentinel
    /\ labels = <<>>
    /\ axis_labels = <<Sentinel>>
    /\ sid_in = <<>>
    /\ normalized = <<>>
    /\ cht_txt = <<>>
    /\ cht = NoCht
    /\ cie_txt = NoCie
    /\ space_in = "lab"
    /\ cie_fmt = <<>>
    /\ data_map = <<>>
    /\ painted = <<>>
    /\ missing_labels = {}
    /\ truly_missing = {}
    /\ expected_cht = 0
    /\ expected_cie = 0
    /\ vis_areas = <<>>
    /\ vis_scale = <<<<1, 1>>, <<1, 1>>>>
    /\ vis_offset = <<0, 0>>
    /\ vis_clearance = <<>>
    /\ vis_entries = <<>>
    /\ vis_flags = <<>>
    /\ chart_extent = <<0, 0>>
    /\ page_margin = 0
    /\ target_dpi = 0
    /\ detected_dpi = 0
    /\ used_dpi = 0
    /\ scale_xy = <<<<1, 1>>, <<1, 1>>>>
    /\ paint_in = NoPaint
    /\ shrink_x_px = <<0, 1>>
    /\ paint_edges = <<>>
    /\ paint_cols = <<>>
    /\ lab_in = <<0, 0, 0>>
    /\ intent_in = "absolute"
    /\ rgb_lin = [num |-> <<ZOf(0), ZOf(0), ZOf(0)>>, den |-> <<1>>]
    /\ rgb16 = <<0, 0, 0>>
    /\ label_in = <<"normal", Sentinel, Sentinel>>
    /\ patch_label = <<>>
    /\ lookup_keys = {}
    /\ lookup_sid = <<>>
    /\ lookup_key = NoKey

\* recreate(), lines 1492-1542: the edges of one axis of one area
BuildGrid ==
    /\ pc = "start"
    /\ \E n \in 0..MaxCount, t \in TileSizes, s \in Scales,
          pre \in PreUnits, off \in OffsetHalves :
        /\ ncols' = n
        /\ tile_x' = t
        /\ SX' = s
        /\ start_x_px' = StartPx(pre, s, off)
        /\ x_edges' = GridEdges(n, t, s, StartPx(pre, s, off))
    /\ pc' = "done"
    /\ UNCHANGED <<idvars, colourvars, rectvars, visvars, dpivars, labelvars, normvars, chtvars, refvars, paintvars>>

SpecGrid == Init /\ [][BuildGrid]_vars

\* generate_labels(tok_start, tok_end), and the labels the patch loop of
\* recreate() runs over (lines 1494-1542)
GenerateLabels ==
    /\ pc = "start"
    /\ \E s \in LabelTokens, e \in LabelTokens :
        /\ tok_start' = s
        /\ tok_end' = e
        /\ labels' = generate_labels(s, e)
        /\ axis_labels' = AxisLabels(s, e)
    /\ pc' = "done"
    /\ UNCHANGED <<idvars, colourvars, rectvars, visvars, dpivars, gridvars, normvars, chtvars, refvars, paintvars>>

SpecLabels == Init /\ [][GenerateLabels]_vars

\* normalize_sid_global(sid_in)
Normalize ==
    /\ pc = "start"
    /\ \E x \in Identifiers :
        /\ sid_in' = x
        /\ normalized' = normalize_sid_global(x)
    /\ pc' = "done"
    /\ UNCHANGED <<idvars, colourvars, rectvars, visvars, dpivars, gridvars, labelvars, chtvars, refvars, paintvars>>

SpecNormalize == Init /\ [][Normalize]_vars

\* parse_cht(path) on the text of the file
ParseChtText ==
    /\ pc = "start"
    /\ \E txt \in LayoutTexts :
        /\ cht_txt' = txt
        /\ cht' = parse_cht(txt)
    /\ pc' = "done"
    /\ UNCHANGED <<idvars, colourvars, rectvars, visvars, dpivars, gridvars, labelvars, normvars, refvars, paintvars>>

SpecCht == Init /\ [][ParseChtText]_vars


\* recreate(): the label sides of every area, lines 1072-1089 and 1610-1755
ResolveVisibility ==
    /\ pc = "start"
    /\ \E cols \in 1..MaxCount, rows \in 1..2, tile \in VisTiles, pre \in PreUnits,
          placement \in Placements, S \in ScalePairs, o \in VisOffsets,
          clearance \in ClearancePairs, entries \in OverrideLists,
          kind2 \in SecondKinds :
       \E areas \in {AreaPair(cols, rows, tile, pre, placement, kind2)} :
        /\ vis_areas' = areas
        /\ vis_scale' = S
        /\ vis_offset' = <<o, o>>
        /\ vis_clearance' = clearance
        /\ vis_entries' = entries
        /\ vis_flags' = [i \in 1..Len(areas) |->
                            LabelFlags(areas, i, S, <<o, o>>, clearance[i], entries)]
    /\ pc' = "done"
    /\ UNCHANGED <<idvars, colourvars, rectvars, dpivars, gridvars, labelvars, normvars, chtvars, refvars, paintvars>>

SpecVisibility == Init /\ [][ResolveVisibility]_vars

\* recreate(), lines 1231-1277: detected DPI, used DPI and the scale factors
ResolveScale ==
    /\ pc = "start"
    /\ \E w \in ChartSides, h \in ChartSides, margin \in Margins, target \in TargetDpis :
       \E detected \in {detect_best_a4_dpi(w, h, margin)} :
        /\ chart_extent' = <<w, h>>
        /\ page_margin' = margin
        /\ target_dpi' = target
        /\ detected_dpi' = detected
        /\ used_dpi' = UsedDpi(target)
        /\ scale_xy' = ScaleFactors(UsedDpi(target), detected)
    /\ pc' = "done"
    /\ UNCHANGED <<idvars, colourvars, rectvars, visvars, gridvars, labelvars, normvars, chtvars, refvars, paintvars>>

SpecScale == Init /\ [][ResolveScale]_vars

\* recreate(), lines 1492-1601 for two areas: grid edges and painted columns
PaintRectangles ==
    /\ pc = "start"
    /\ \E n1 \in 0..MaxCount, n2 \in 1..2, t \in TileSizes, s \in Scales,
          pre \in PreUnits, gap \in Gaps, off \in OffsetHalves, bs \in BoxShrinks :
       \E pre2 \in {SecondPre(n1, t, pre, gap)} :
       \E e1 \in {GridEdges(n1, t, s, StartPx(pre, s, off))},
          e2 \in {GridEdges(n2, t, s, StartPx(pre2, s, off))} :
       \E W \in {CanvasWidth(StartPx(pre2, s, off) + 2 * TotalNum(n2, t, s), s)} :
        /\ paint_in' = [n1 |-> n1, n2 |-> n2, tile |-> t, s |-> s, pre |-> pre,
                        gap |-> gap, off |-> off, box_shrink |-> bs]
        /\ shrink_x_px' = ShrinkPx(bs, s)
        /\ paint_edges' = <<e1, e2>>
        /\ paint_cols' = <<PatchColumns(e1, W), PatchColumns(e2, W)>>
    /\ pc' = "done"
    /\ UNCHANGED <<idvars, colourvars, visvars, dpivars, gridvars, labelvars, normvars, chtvars,
                   refvars, paintvars>>

SpecRectangles == Init /\ [][PaintRectangles]_vars

\* the patch loop for a Lab record: lab_to_xyz, xyz_d50_to_srgb_intent, and
\* the 16-bit value written to the canvas
ConvertLab ==
    /\ pc = "start"
    /\ \E c \in ColourInputs :
       \E L \in {c[1]}, a \in {c[2]}, b \in {c[3]}, intent \in {c[4]} :
       \E xyz \in {lab_to_xyz(L, a, b)} :
       \E w \in {ConeResponse(xyz)} :
       \E s \in {AdaptCone(w)} :
       \E xa \in {ConeToXyz(s)} :
       \E lin \in {LinearRgb(xa)} :
       \E k1 \in {GammaKey(lin.num[1], lin.den, intent)},
          k2 \in {GammaKey(lin.num[2], lin.den, intent)},
          k3 \in {GammaKey(lin.num[3], lin.den, intent)} :
        /\ lab_in' = <<L, a, b>>
        /\ intent_in' = intent
        /\ rgb_lin' = lin
        /\ rgb16' = <<Rgb16(k1, intent), Rgb16(k2, intent), Rgb16(k3, intent)>>
    /\ pc' = "done"
    /\ UNCHANGED <<idvars, rectvars, visvars, dpivars, gridvars, labelvars, normvars, chtvars,
                   refvars, paintvars>>

SpecColour == Init /\ [][ConvertLab]_vars

\* the run goes on with the patches no matter how the layout was parsed
ContinueAnyway(parsed) == "cht_parsed"

\* a RuntimeError of parse_cht leaves recreate() (and main()) at line 1065
AfterParseCht(parsed) == IF parsed.status = "ok" THEN "cht_parsed" ELSE "failed"

\* make_patch_label(area, rlabel, clabel) for one cell
MakePatchLabel ==
    /\ pc = "start"
    /\ \E mode \in LabelModes, rlabel \in CellLabels, clabel \in CellLabels :
        /\ label_in' = <<mode, rlabel, clabel>>
        /\ patch_label' = make_patch_label([label_mode |-> mode], rlabel, clabel)
    /\ pc' = "done"
    /\ UNCHANGED <<lookup_keys, lookup_sid, lookup_key, colourvars, rectvars, visvars,
                   dpivars, gridvars, labelvars, normvars, chtvars, refvars, paintvars>>

SpecPatchLabel == Init /\ [][MakePatchLabel]_vars

\* find_vals_for_sid(sid) on a lookup table with the keys ks
LookUp ==
    /\ pc = "start"
    /\ \E ks \in KeySets, x \in LookupIds :
        /\ lookup_keys' = ks
        /\ lookup_sid' = x
        /\ lookup_key' = find_vals_for_sid([k \in ks |-> TRUE], x)
    /\ pc' = "done"
    /\ UNCHANGED <<label_in, patch_label, colourvars, rectvars, visvars, dpivars,
                   gridvars, labelvars, normvars, chtvars, refvars, paintvars>>

SpecLookup == Init /\ [][LookUp]_vars

\* recreate(), line 1065: the layout is parsed, a RuntimeError aborts the run
LoadLayout ==
    /\ pc = "start"
    /\ \E txt \in ChartTexts :
       \E parsed \in {parse_cht(txt)} :
        /\ cht_txt' = txt
        /\ cht' = parsed
        /\ pc' = AfterParseCht(parsed)
    /\ UNCHANGED <<idvars, colourvars, rectvars, visvars, dpivars, gridvars, labelvars, normvars, refvars, paintvars>>

\* recreate(), line 1067: the reference file is parsed
LoadReference ==
    /\ pc = "cht_parsed"
    /\ \E body \in RefBodies, fs \in FormatAndSpace :
        \E txt \in {[fmt |-> fs[1], begin_data |-> body.begin_data,
                     end_data |-> body.end_data, rows |-> body.rows]} :
        \E parsed \in {parse_it8_or_cie(txt, fs[2])} :
            /\ cie_txt' = txt
            /\ space_in' = fs[2]
            /\ cie_fmt' = parsed.fmt
            /\ data_map' = parsed.data_map
    /\ pc' = "cie_parsed"
    /\ UNCHANGED <<idvars, colourvars, rectvars, visvars, dpivars, gridvars, labelvars, normvars, chtvars, paintvars>>

\* recreate(), the patch loop over all areas; a colour of fewer than three
\* channels raises IndexError when it is written to the canvas
PaintPatches ==
    /\ pc = "cie_parsed"
    /\ \E scale_factor \in {ScaleDivisor(data_map, space_in)} :
       \E ps \in {AllPatches(cht.areas, data_map, scale_factor)} :
           /\ painted' = ps
           /\ missing_labels' = MissingInLoop(ps)
           /\ pc' = IF \E i \in 1..Len(ps) : ps[i].rgb.kind = "short"
                    THEN "failed" ELSE "painted"
    /\ UNCHANGED <<idvars, colourvars, rectvars, visvars, dpivars, gridvars, labelvars, normvars, chtvars, refvars,
                   truly_missing, expected_cht, expected_cie>>

\* recreate(), lines 1965-1978: the raster is written
SaveRaster ==
    /\ pc = "painted"
    /\ pc' = "saved"
    /\ UNCHANGED <<idvars, colourvars, rectvars, visvars, dpivars, gridvars, labelvars, normvars, chtvars, refvars, paintvars>>

\* recreate(), lines 1980-2076: missing labels recomputed, filtered, printed
ReportMissing ==
    /\ pc = "saved"
    /\ \E missing \in {MissingNormalized(painted, data_map)} :
           /\ missing_labels' = missing
           /\ \E e \in DeclaredCounts :
                /\ expected_cht' = e[1]
                /\ expected_cie' = e[2]
                /\ truly_missing' = TrulyMissing(missing, cht.areas, data_map,
                                                 e[1], e[2])
    /\ pc' = "done"
    /\ UNCHANGED <<idvars, colourvars, rectvars, visvars, dpivars, gridvars, labelvars, normvars, chtvars, refvars, painted>>

Next == LoadLayout \/ LoadReference \/ PaintPatches \/ SaveRaster \/ ReportMissing

Spec == Init /\ [][Next]_vars

-----------------------------------------------------------------------------
(* Claims about the grid builder *)

\* the pixel size of one tile is at least one pixel
TileAtLeastOnePixel == tile_x * SX[1] >= TileDen * SX[2]

C2_EdgesTileTotal ==
    ncols > 0 =>
        /\ Len(x_edges) = ncols + 1
        /\ 2 * Abs((x_edges[Len(x_edges)] - x_edges[1]) * TotalDen(SX)
                   - ncols * tile_x * SX[1]) <= TotalDen(SX)

C2_Witness ==
    /\ ncols = 3
    /\ tile_x = 25625
    /\ SX = <<2480, 827>>
    /\ (ncols * tile_x * SX[1]) % TotalDen(SX) # 0
    /\ x_edges[4] - x_edges[1] = 231

-----------------------------------------------------------------------------
(* Claims about canonical identifiers *)

\* C4: normalize is idempotent: normalize(normalize(x)) = normalize(x) for
\* every identifier x.
C4_NormalizeIdempotent ==
    pc = "done" => normalize_sid_global(normalized) = normalized

C4_Witness ==
    /\ pc = "done"
    /\ sid_in = <<"2", "a", "0", "1">>
    /\ normalized = <<"2", "A", "1">>

-----------------------------------------------------------------------------
(* Claims about the layout parser *)

\* the numbers on the first line of the text that starts with "F "
FiducialNumbers(txt) ==
    LET i == CHOOSE k \in 1..Len(txt) :
                 /\ IsFLine(txt[k])
                 /\ \A m \in 1..(k - 1) : ~IsFLine(txt[m])
    IN  LineNumbers(txt[i])

\* C6: layout parsing fails in each of these cases and in no other: the text
\* has no fiducial line, the fiducial line carries fewer than 3 coordinate
\* pairs, or no area declaration is found.
C6_LayoutFatalCases ==
    pc = "done" =>
        (cht.status # "ok" <=>
            \/ \A i \in 1..Len(cht_txt) : ~IsFLine(cht_txt[i])
            \/ Len(FiducialNumbers(cht_txt)) \div 2 < 3
            \/ \A i \in 1..Len(cht_txt) : ~AreaMatches(cht_txt, i))

C6_Witness ==
    /\ pc = "done"
    /\ cht.status = "insufficient_pairs"
    /\ Len(FiducialNumbers(cht_txt)) = 5
    /\ \E i \in 1..Len(cht_txt) : AreaMatches(cht_txt, i)

\* the line has the shape of an area declaration: an axis-kind token, four
\* label tokens and exactly six numeric tokens
ExactAreaShape(line) ==
    /\ Len(line) = 11
    /\ Upper(line[1]) \in {<<"X">>, <<"Y">>}
    /\ \A k \in 6..11 : IsPlainNumber(line[k])

\* the lines of the text that have the shape of an area declaration
RECURSIVE ShapedLines(_)
ShapedLines(txt) ==
    IF txt = <<>> THEN <<>>
    ELSE (IF ExactAreaShape(Head(txt)) THEN <<Head(txt)>> ELSE <<>>)
            \o ShapedLines(Tail(txt))

Geometry6(area) ==
    <<area.tile_x, area.tile_y, area.pre_x, area.pre_y, area.post_x, area.post_y>>

\* C19: an area declaration is recognised only on a line made of an axis-kind
\* token, 4 label tokens and exactly 6 numeric tokens; any other line (fewer
\* or more than 6 numeric tokens, non-numeric geometry) contributes no Area,
\* and every Area has exactly the 6 geometry values of its own line.
C19_ExactlySixNumbers ==
    (pc = "done" /\ cht.status = "ok") =>
        LET shaped == ShapedLines(cht_txt)
        IN  /\ Len(cht.areas) = Len(shaped)
            /\ \A k \in 1..Len(shaped) :
                  Geometry6(cht.areas[k]) = [j \in 1..6 |-> NumValue(shaped[k][5 + j])]

\* C20: a successfully parsed layout carries exactly 4 fiducial points: the
\* first four coordinate pairs of the fiducial line when four or more are
\* given, and with exactly 3 the corners of their bounding box in the order
\* top-left, top-right, bottom-right, bottom-left.  The pairs are read from
\* the numbers of the line, the first number being left out when their
\* count is odd.
C20_FourFiducials ==
    (pc = "done" /\ cht.status = "ok") =>
        LET nums  == FiducialNumbers(cht_txt)
            skip  == Len(nums) % 2
            count == (Len(nums) - skip) \div 2
            px(i) == NumValue(nums[skip + 2 * i - 1])
            py(i) == NumValue(nums[skip + 2 * i])
            left   == CHOOSE x \in {px(i) : i \in 1..3} : \A i \in 1..3 : x <= px(i)
            right  == CHOOSE x \in {px(i) : i \in 1..3} : \A i \in 1..3 : x >= px(i)
            top    == CHOOSE y \in {py(i) : i \in 1..3} : \A i \in 1..3 : y <= py(i)
            bottom == CHOOSE y \in {py(i) : i \in 1..3} : \A i \in 1..3 : y >= py(i)
        IN  /\ Len(cht.fids) = 4
            /\ count >= 3
            /\ count >= 4 => \A i \in 1..4 : cht.fids[i] = <<px(i), py(i)>>
            /\ count = 3 =>
                  cht.fids = <<<<left, top>>, <<right, top>>,
                               <<right, bottom>>, <<left, bottom>>>>

\* three pairs given, the fourth corner inferred
C20_Witness ==
    /\ pc = "done"
    /\ cht.status = "ok"
    /\ Len(FiducialNumbers(cht_txt)) = 6
    /\ cht.fids = <<<<10000, 10000>>, <<200000, 10000>>,
                    <<200000, 150000>>, <<10000, 150000>>>>

\* five pairs given, the first four kept
FiveGivenFourKept ==
    /\ pc = "done"
    /\ cht.status = "ok"
    /\ Len(FiducialNumbers(cht_txt)) = 10
    /\ Len(cht.fids) = 4

-----------------------------------------------------------------------------
(* Claims about the label sequencer *)

\* the token, trimmed and upper-cased, is the letters of prefix and a number
HasPrefixAndNumber(tok, prefix) ==
    LET s == Upper(Strip(tok))
    IN  /\ Len(s) > Len(prefix)
        /\ Take(s, Len(prefix)) = prefix
        /\ AllDigits(Drop(s, Len(prefix)))

SuffixOf(tok, prefix) == Drop(Upper(Strip(tok)), Len(prefix))

\* the labels are prefix + number for every number from the start token's to
\* the end token's, in increasing order, padded to the wider suffix
IsPaddedRange(prefix) ==
    LET a == ToInt(SuffixOf(tok_start, prefix))
        b == ToInt(SuffixOf(tok_end, prefix))
        w == Max2(Len(SuffixOf(tok_start, prefix)), Len(SuffixOf(tok_end, prefix)))
    IN  /\ Len(labels) = (IF b >= a THEN b - a + 1 ELSE 0)
        /\ \A i \in 1..Len(labels) :
            /\ Len(labels[i]) = Len(prefix) + w
            /\ Take(labels[i], Len(prefix)) = prefix
            /\ AllDigits(Drop(labels[i], Len(prefix)))
            /\ ToInt(Drop(labels[i], Len(prefix))) = a + i - 1

\* C9 (as stated): whenever both tokens are the same alphabetic prefix
\* followed by a number, the result is the padded range of that prefix.
C9_AnySharedPrefixRange ==
    pc = "done" =>
        \A prefix \in {GS, <<"A">>} :
            (HasPrefixAndNumber(tok_start, prefix) /\ HasPrefixAndNumber(tok_end, prefix))
                => IsPaddedRange(prefix)

\* C9 (amended): whenever both tokens are GS followed by a number, the
\* result is every label from the start number to the end number in
\* increasing order, each written GS + number zero-padded to the wider of
\* the two input suffix widths.
C9_GSRange ==
    pc = "done" =>
        ((HasPrefixAndNumber(tok_start, GS) /\ HasPrefixAndNumber(tok_end, GS))
            => IsPaddedRange(GS))

C9_Witness ==
    /\ pc = "done"
    /\ tok_start = <<"g", "s", "0">>
    /\ tok_end = <<"G", "S", "1", "1">>
    /\ Len(labels) = 12
    /\ labels[1] = <<"G", "S", "0", "0">>

\* C10: for digit-string tokens with int(start) <= int(end) the result has
\* int(end) - int(start) + 1 entries, consecutive and increasing, each
\* zero-padded to the wider of the two input widths.
C10_NumericRange ==
    (pc = "done" /\ IsNumeric(tok_start) /\ IsNumeric(tok_end)
        /\ ToInt(tok_start) <= ToInt(tok_end))
    => /\ Len(labels) = ToInt(tok_end) - ToInt(tok_start) + 1
       /\ \A i \in 1..Len(labels) :
            /\ Len(labels[i]) = Max2(Len(tok_start), Len(tok_end))
            /\ AllDigits(labels[i])
            /\ ToInt(labels[i]) = ToInt(tok_start) + i - 1

C10_Witness ==
    /\ pc = "done"
    /\ tok_start = <<"0", "1">>
    /\ tok_end = <<"2", "2">>
    /\ Len(labels) = 22
    /\ labels[22] = <<"2", "2">>

\* the tokens as generate_labels compares them: stripped and upper-cased
NormStart == Upper(Strip(tok_start))

NormEnd == Upper(Strip(tok_end))

\* the labels have been generated for an enabled axis
Sequenced == pc = "done" /\ tok_start # Sentinel /\ tok_end # Sentinel

\* C11: on a pure alphabetic range the result is the labels whose bijective
\* base-26 values run from min(v(start), v(end)) to max(v(start), v(end)) in
\* increasing order; Y..AB and AB..Y both give Y, Z, AA, AB.
C11_AlphaRange ==
    (Sequenced /\ IsAlpha(NormStart) /\ IsAlpha(NormEnd)) =>
        LET a  == alpha_to_num(NormStart)
            b  == alpha_to_num(NormEnd)
            lo == IF a < b THEN a ELSE b
            hi == IF a < b THEN b ELSE a
        IN  /\ Len(labels) = hi - lo + 1
            /\ \A i \in 1..Len(labels) :
                  IsAlpha(labels[i]) /\ alpha_to_num(labels[i]) = lo + i - 1
            /\ ({NormStart, NormEnd} = {<<"Y">>, <<"A", "B">>}
                  => labels = <<<<"Y">>, <<"Z">>, <<"A", "A">>, <<"A", "B">>>>)

C11_Witness ==
    /\ pc = "done"
    /\ tok_start = <<"A", "B">>
    /\ tok_end = <<"Y">>
    /\ labels = <<<<"Y">>, <<"Z">>, <<"A", "A">>, <<"A", "B">>>>

\* no range rule of generate_labels matches the token pair
NoRangeRule ==
    /\ Sequenced
    /\ ~(IsGSToken(NormStart) /\ IsGSToken(NormEnd))
    /\ ~(IsNumeric(NormStart) /\ IsNumeric(NormEnd))
    /\ ~(/\ IsDigitsAlpha(NormStart)
         /\ IsDigitsAlpha(NormEnd)
         /\ Take(NormStart, LeadDigits(NormStart)) = Take(NormEnd, LeadDigits(NormEnd)))
    /\ ~(IsAlpha(NormStart) /\ IsAlpha(NormEnd))

\* C12 (as stated): when no range rule matches, the result is one element if
\* the two tokens are equal and otherwise the two raw tokens verbatim,
\* unchanged in case and spacing.
C12_FallbackVerbatim ==
    NoRangeRule =>
        labels = IF tok_start = tok_end THEN <<tok_start>> ELSE <<tok_start, tok_end>>

\* C12 (amended): when no range rule matches, the result is built from the
\* tokens stripped of surrounding whitespace and upper-cased: one element if
\* the two are then equal, otherwise the two of them in the order start, end.
C12_FallbackNormalized ==
    NoRangeRule =>
        labels = IF NormStart = NormEnd THEN <<NormStart>> ELSE <<NormStart, NormEnd>>

C12_Witness ==
    /\ NoRangeRule
    /\ tok_start = <<"a", "-", "1">>
    /\ tok_end = <<"0", "1">>
    /\ labels = <<<<"A", "-", "1">>, <<"0", "1">>>>

\* C13: if either token is the sentinel "_" the result is the empty list,
\* whatever the other token, before any range rule is tried.
C13_DisabledAxisEmpty ==
    (pc = "done" /\ (tok_start = Sentinel \/ tok_end = Sentinel)) => labels = <<>>

C13_Witness ==
    /\ pc = "done"
    /\ tok_start = <<"0", "1">>
    /\ tok_end = Sentinel
    /\ labels = <<>>

\* a numeric range or a GS range whose start is greater than its end
ReversedNumber ==
    \/ /\ IsGSToken(NormStart)
       /\ IsGSToken(NormEnd)
       /\ ToInt(Drop(NormStart, 2)) > ToInt(Drop(NormEnd, 2))
    \/ /\ IsNumeric(NormStart)
       /\ IsNumeric(NormEnd)
       /\ ToInt(NormStart) > ToInt(NormEnd)

\* C29: a numeric or GS range whose start is greater than its end gives the
\* empty list (an alphabetic range is reordered and gives its labels), and
\* the patch loop then runs over the single label "_" on that axis, as it
\* does for a disabled axis.
C29_ReversedRangeEmpty ==
    /\ (Sequenced /\ ReversedNumber) => (labels = <<>> /\ axis_labels = <<Sentinel>>)
    /\ (Sequenced /\ IsAlpha(NormStart) /\ IsAlpha(NormEnd)) =>
            (labels # <<>> /\ axis_labels = labels)

C29_Witness ==
    /\ pc = "done"
    /\ tok_start = <<"G", "S", "1", "0">>
    /\ tok_end = <<"G", "S", "0", "2">>
    /\ labels = <<>>
    /\ axis_labels = <<Sentinel>>

-----------------------------------------------------------------------------
(* Claims about the label visibility *)

\* the label sides have been resolved
Resolved == pc = "done" /\ Len(vis_flags) = 2

\* the caller's entries name no area
NoOverride == manual_label_visibility(vis_entries) = <<>>

\* both areas have more than one row
ManyRows ==
    \A i \in 1..Len(vis_areas) : AxisCount(vis_areas[i].ystart, vis_areas[i].yend) > 1

\* the second area starts exactly where the first ends, at the same height
TouchingSideBySide ==
    /\ vis_areas[2].pre_x
          = vis_areas[1].pre_x
             + AxisCount(vis_areas[1].xstart, vis_areas[1].xend) * vis_areas[1].tile_x
    /\ vis_areas[2].pre_y = vis_areas[1].pre_y

\* C14 (as stated): without overrides, for two areas of more than one row
\* placed with zero horizontal gap and overlapping vertical extent, the left
\* area's right labels and the right area's left labels are both suppressed
\* and neither outward side is, for every placement, tile size and scale.
C14_InnerSidesSuppressed ==
    (Resolved /\ NoOverride /\ ManyRows /\ TouchingSideBySide) =>
        /\ ~vis_flags[1].R
        /\ ~vis_flags[2].L
        /\ vis_flags[1].L
        /\ vis_flags[2].R

\* the override registered for the area of axis id X
OverrideOfX == manual_label_visibility(vis_entries)[<<"X">>]

\* C15 (as stated): a manual override replaces the computed flags outright:
\* ALL draws all four sides, NONE none, a subset of L, T, R, B exactly the
\* listed sides, whatever the adjacency or the row and column count decide.
C15_OverrideOutright ==
    (Resolved /\ <<"X">> \in DOMAIN manual_label_visibility(vis_entries)) =>
        vis_flags[1] =
            IF OverrideOfX = AllWord THEN AllSides
            ELSE IF OverrideOfX = NoneWord THEN NoSides
            ELSE [L |-> \E i \in 1..Len(OverrideOfX) : OverrideOfX[i] = "L",
                  R |-> \E i \in 1..Len(OverrideOfX) : OverrideOfX[i] = "R",
                  T |-> \E i \in 1..Len(OverrideOfX) : OverrideOfX[i] = "T",
                  B |-> \E i \in 1..Len(OverrideOfX) : OverrideOfX[i] = "B"]

\* the sides of area i hidden by the neighbour detection, before any override
AutoFlags(i) ==
    NeighbourFlags(vis_areas, i, vis_scale, vis_offset, vis_clearance[i])

\* C24: automatic suppression is symmetric: the right side of one area is
\* suppressed because of the other exactly when the left side of the other is
\* suppressed because of the first, likewise bottom and top, also when the
\* two areas have labels of different rendered sizes.
C24_SuppressionSymmetric ==
    Resolved =>
        /\ AutoFlags(1).R = AutoFlags(2).L
        /\ AutoFlags(1).L = AutoFlags(2).R
        /\ AutoFlags(1).B = AutoFlags(2).T
        /\ AutoFlags(1).T = AutoFlags(2).B

\* the axis kind of area i and of an override entry, the flag string of an entry
KindOf(i) == Upper(Strip(vis_areas[i].axis))

EntryKind(e) == Upper(Strip(Take(e, EqualsAt(e) - 1)))

EntryFlags(e) == Upper(Strip(Drop(e, EqualsAt(e))))

\* an entry that names sides: ALL, NONE, or at least one of L, T, R, B
NamesSides(e) ==
    /\ EqualsAt(e) > 0
    /\ \/ EntryFlags(e) \in {AllWord, NoneWord}
       \/ \E k \in 1..Len(EntryFlags(e)) : EntryFlags(e)[k] \in {"L", "T", "R", "B"}

\* the sides an entry names
SidesOf(e) ==
    IF EntryFlags(e) = AllWord THEN AllSides
    ELSE IF EntryFlags(e) = NoneWord THEN NoSides
    ELSE [L |-> \E k \in 1..Len(EntryFlags(e)) : EntryFlags(e)[k] = "L",
          R |-> \E k \in 1..Len(EntryFlags(e)) : EntryFlags(e)[k] = "R",
          T |-> \E k \in 1..Len(EntryFlags(e)) : EntryFlags(e)[k] = "T",
          B |-> \E k \in 1..Len(EntryFlags(e)) : EntryFlags(e)[k] = "B"]

\* the entries of the caller that name sides for the axis kind of area i
EntriesFor(i) ==
    {k \in 1..Len(vis_entries) :
        NamesSides(vis_entries[k]) /\ EntryKind(vis_entries[k]) = KindOf(i)}

\* area i has more than one row and more than one column
ManyCells(i) ==
    /\ AxisCount(vis_areas[i].xstart, vis_areas[i].xend) > 1
    /\ AxisCount(vis_areas[i].ystart, vis_areas[i].yend) > 1

\* C30: an override is keyed by the axis kind of the area line: every area of
\* that kind gets the sides of the entry (areas of several rows and columns,
\* where the single-row and single-column rule hides nothing), every area of
\* another kind keeps its automatically computed flags, and so does every
\* area when the entry names no side and is neither ALL nor NONE.
C30_OverrideByAxisKind ==
    Resolved =>
        \A i \in 1..Len(vis_areas) :
            /\ EntriesFor(i) = {} =>
                    vis_flags[i] = AutoSuppress(AutoFlags(i), vis_areas[i])
            /\ (EntriesFor(i) # {} /\ ManyCells(i)) =>
                    vis_flags[i] = SidesOf(vis_entries[SetMax(EntriesFor(i))])

\* two touching X areas of two rows both show the sides L and T of the entry
\* X=LT
C30_Witness ==
    /\ Resolved
    /\ vis_entries = <<<<"X", "=", "L", "T">>>>
    /\ KindOf(1) = <<"X">>
    /\ KindOf(2) = <<"X">>
    /\ ManyCells(1)
    /\ ManyCells(2)
    /\ TouchingSideBySide
    /\ vis_flags = <<[L |-> TRUE, R |-> FALSE, T |-> TRUE, B |-> FALSE],
                     [L |-> TRUE, R |-> FALSE, T |-> TRUE, B |-> FALSE]>>

-----------------------------------------------------------------------------
(* Claims about the scale resolver *)

\* the chart with its margins fits the A4 page of this DPI, in portrait or
\* in landscape
ChartFits(dpi) ==
    LET m  == RoundHalfEven(page_margin * dpi * 10, 254) * TileDen
        pw == A4_DPI_TABLE[dpi][1] * TileDen
        ph == A4_DPI_TABLE[dpi][2] * TileDen
        w  == chart_extent[1] + 2 * m
        h  == chart_extent[2] + 2 * m
    IN  (w <= pw /\ h <= ph) \/ (w <= ph /\ h <= pw)

\* C16: the detected DPI is the smallest DPI of the page-size table at which
\* the chart plus twice the margin fits the page in portrait or landscape;
\* if no entry fits it is the table's largest DPI.
C16_SmallestFittingDpi ==
    pc = "done" =>
        /\ detected_dpi \in DOMAIN A4_DPI_TABLE
        /\ IF \E d \in DOMAIN A4_DPI_TABLE : ChartFits(d)
           THEN /\ ChartFits(detected_dpi)
                /\ \A d \in DOMAIN A4_DPI_TABLE : d < detected_dpi => ~ChartFits(d)
           ELSE \A d \in DOMAIN A4_DPI_TABLE : d <= detected_dpi

C16_Witness ==
    /\ pc = "done"
    /\ page_margin = 15
    /\ detected_dpi = 100
    /\ ChartFits(100) /\ ChartFits(300) /\ ~ChartFits(96)

\* C17: whenever used_dpi equals detected_dpi (used_dpi being the target DPI,
\* or 300 when none is supplied), scale_x = scale_y = 1.0 exactly.
C17_EqualDpiUnitScale ==
    pc = "done" =>
        /\ used_dpi = (IF target_dpi # 0 THEN target_dpi ELSE 3000)
        /\ used_dpi = detected_dpi * 10 => scale_xy = <<<<1, 1>>, <<1, 1>>>>

C17_Witness ==
    /\ pc = "done"
    /\ target_dpi = 0
    /\ detected_dpi = 300
    /\ scale_xy = <<<<1, 1>>, <<1, 1>>>>

\* C18: when used_dpi differs from detected_dpi each scale factor equals the
\* ratio of the two DPIs' page-pixel dimensions: scale_x = page width at
\* used_dpi / page width at detected_dpi, scale_y likewise with the heights
\* (detected 100, used 300: 2480/827 and 3508/1169).
C18_PagePixelRatio ==
    (pc = "done" /\ used_dpi # detected_dpi * 10) =>
        /\ scale_xy[1][1] * PagePixels(detected_dpi * 10)[1]
              = scale_xy[1][2] * PagePixels(used_dpi)[1]
        /\ scale_xy[2][1] * PagePixels(detected_dpi * 10)[2]
              = scale_xy[2][2] * PagePixels(used_dpi)[2]
        /\ (detected_dpi = 100 /\ used_dpi = 3000
              => /\ scale_xy[1][1] * 827 = scale_xy[1][2] * 2480
                 /\ scale_xy[2][1] * 1169 = scale_xy[2][2] * 3508)

C18_Witness ==
    /\ pc = "done"
    /\ detected_dpi = 100
    /\ used_dpi = 3000
    /\ scale_xy[1][1] * 827 = scale_xy[1][2] * 2480
    /\ scale_xy[2][1] * 1169 = scale_xy[2][2] * 3508

-----------------------------------------------------------------------------
(* Claims about the reference lookup and the patch colours *)

\* rgb equals (0.5, 0.5, 0.5)
IsNeutralGray(col) ==
    \/ col.kind = "gray"
    \/ /\ col.kind \in {"rgb", "raw"}
       /\ \A i \in 1..3 : 2 * col.c[i] = 1000 * col.div

\* the patch loop has run to its end
Painted == pc \in {"painted", "saved", "done"}

\* the identifiers written in the data block of the reference text
ReferenceIds ==
    {DataRows(cie_txt)[i][1] :
        i \in {j \in 1..Len(DataRows(cie_txt)) :
                  Len(DataRows(cie_txt)[j]) >= 2 /\ Head(DataRows(cie_txt)[j][1]) # "#"}}

\* the canonical form of an identifier as it is written in a file
Canonical(id) == normalize_sid_global(StripQuotes(id))

\* C3 (as stated): a generated patch is matched to a reference record
\* whenever the two identifiers have the same canonical form; leading zeros
\* of the trailing number, letter case and surrounding quotes never prevent it.
C3_SameCanonicalFormMatched ==
    Painted =>
        \A i \in 1..Len(painted), id \in ReferenceIds :
            Canonical(id) = Canonical(painted[i].sid)
                => /\ painted[i].key # NoKey
                   /\ Canonical(painted[i].key) = Canonical(painted[i].sid)

\* a reference text was parsed and one or both data block delimiters are absent
DelimiterAbsent ==
    /\ cht.status = "ok"
    /\ pc # "cht_parsed"
    /\ ~(cie_txt.begin_data /\ cie_txt.end_data)

\* C5 (as stated): a reference text whose data block delimiters are entirely
\* absent fails with a fatal error that aborts the reconstruction.
C5_MissingDelimitersFatal ==
    (DelimiterAbsent /\ ~cie_txt.begin_data /\ ~cie_txt.end_data) => pc = "failed"

\* C5 (amended): a reference text in which a data block delimiter is absent
\* raises no error: the lookup table is empty, the reconstruction goes on,
\* and every patch is painted neutral gray and recorded as unmatched.
C5_MissingDelimitersEmptyTable ==
    DelimiterAbsent =>
        /\ pc # "failed"
        /\ data_map = <<>>
        /\ Painted => /\ Len(painted) > 0
                      /\ \A i \in 1..Len(painted) :
                            painted[i].key = NoKey /\ painted[i].rgb = Gray

C5_Witness ==
    /\ pc = "done"
    /\ ~cie_txt.begin_data
    /\ ~cie_txt.end_data
    /\ cie_txt.rows # <<>>
    /\ Len(painted) > 0

\* C7 (as stated): every patch whose identifier has no matching record is
\* painted neutral gray, and its identifier is recorded and reported as missing.
C7_UnmatchedGrayAndReported ==
    pc = "done" =>
        \A i \in 1..Len(painted) :
            painted[i].key = NoKey
                => /\ IsNeutralGray(painted[i].rgb)
                   /\ painted[i].sid \in missing_labels
                   /\ painted[i].sid \in truly_missing

\* the entry of patch i has an unresolved channel index
Unresolved(i) ==
    /\ painted[i].key # NoKey
    /\ 0 \in {data_map[painted[i].key].i1, data_map[painted[i].key].i2,
              data_map[painted[i].key].i3}

\* the first three stored values of the entry of patch i
FirstThree(i) ==
    LET vals == data_map[painted[i].key].vals
    IN  [j \in 1..(IF Len(vals) < 3 THEN Len(vals) ELSE 3) |-> vals[j]]

HasWord(i) == \E j \in 1..Len(FirstThree(i)) : ~FirstThree(i)[j].num

RecordRows ==
    {i \in 1..Len(DataRows(cie_txt)) :
        /\ Len(DataRows(cie_txt)[i]) >= 2
        /\ Head(DataRows(cie_txt)[i][1]) # "#"}

\* the identifier of data row i, upper-cased
RowKey(i) == Upper(RowSid(DataRows(cie_txt)[i], cie_txt.fmt))

\* C21: the lookup table is keyed by the upper-case identifier and holds one
\* record per identifier: of several rows with the same identifier (also when
\* they differ only in letter case) the record of the last row is stored.
C21_LastDuplicateWins ==
    /\ \A k \in DOMAIN data_map : k = Upper(k)
    /\ DOMAIN data_map = {RowKey(i) : i \in RecordRows}
    /\ \A i \in RecordRows :
          (\A j \in RecordRows : RowKey(j) = RowKey(i) => j <= i)
             => data_map[RowKey(i)].vals = RowVals(DataRows(cie_txt)[i])

C21_Witness ==
    /\ pc = "cie_parsed"
    /\ RecordRows = {1, 2}
    /\ RowKey(1) = RowKey(2)
    /\ DataRows(cie_txt)[1][1] # DataRows(cie_txt)[2][1]
    /\ data_map[RowKey(1)].vals = RowVals(DataRows(cie_txt)[2])
    /\ RowVals(DataRows(cie_txt)[1]) # RowVals(DataRows(cie_txt)[2])

-----------------------------------------------------------------------------
(* Claims about the painted rectangles *)

RectanglesPainted == pc = "done" /\ paint_edges # <<>>

\* C22: a non-zero box shrink insets every patch rectangle relative to its
\* grid cell (and changes neither labels, identifiers nor label placement).
C22_ShrinkInsetsPatches ==
    (RectanglesPainted /\ shrink_x_px[1] >= shrink_x_px[2]) =>
        \A a \in 1..2 : \A c \in 1..Len(paint_cols[a]) :
            /\ paint_cols[a][c][1] > paint_edges[a][c]
            /\ paint_cols[a][c][2] < paint_edges[a][c + 1]

\* a pixel column painted by patches of both areas
SharedColumn ==
    \E c1 \in 1..Len(paint_cols[1]), c2 \in 1..Len(paint_cols[2]) :
        /\ paint_cols[1][c1][1] < paint_cols[1][c1][2]
        /\ paint_cols[2][c2][1] < paint_cols[2][c2][2]
        /\ paint_cols[1][c1][1] < paint_cols[2][c2][2]
        /\ paint_cols[2][c2][1] < paint_cols[1][c1][2]

\* C28: two areas that do not overlap in unit space (in particular two that
\* abut exactly) never have overlapping painted rectangles, for every
\* offset and scale.
C28_NoSharedPixels == RectanglesPainted => ~SharedColumn

-----------------------------------------------------------------------------
(* Claims about the colour conversion *)

\* the linear value of channel c is within steps / 65535 of 1
LinearWithin(c, steps) ==
    LET z == rgb_lin.num[c]
    IN  /\ z[2] = <<>>
        /\ BigGe(BigMul(z[1], BigOf(65535)), BigMul(rgb_lin.den, BigOf(65535 - steps)))
        /\ BigGe(BigMul(rgb_lin.den, BigOf(65535 + steps)), BigMul(z[1], BigOf(65535)))

WhiteConverted == pc = "done" /\ lab_in = <<100, 0, 0>>

\* C23: the D50 white point L = 100, a = 0, b = 0 gives RGB (1, 1, 1) within
\* the 16-bit quantization: under the display intent every channel is painted
\* within one 16-bit step of 65535, and under the absolute intent every linear
\* value is within one 16-bit step of 1
C23_WhiteWithinQuantization ==
    WhiteConverted =>
        /\ intent_in \in GammaIntents => \A c \in 1..3 : rgb16[c] >= 65534
        /\ intent_in \notin GammaIntents => \A c \in 1..3 : LinearWithin(c, 1)

-----------------------------------------------------------------------------
(* Claims about the order of the stages *)

\* the layout text was read and parse_cht raised
LayoutFailed == cht_txt # <<>> /\ cht.status # "ok"

\* the raster has been written
RasterWritten == pc \in {"saved", "done"}

\* the number of cells of the areas, a disabled axis counting as one
RECURSIVE CellCount(_)
CellCount(areas) ==
    IF areas = <<>> THEN 0
    ELSE Len(AxisLabels(Head(areas).xstart, Head(areas).xend))
            * Len(AxisLabels(Head(areas).ystart, Head(areas).yend))
         + CellCount(Tail(areas))

\* every patch of every area has its identifier and its colour
EveryPatchResolved ==
    /\ cht.status = "ok"
    /\ Len(painted) = CellCount(cht.areas)
    /\ \A i \in 1..Len(painted) : painted[i].rgb.kind # "short"

\* C25: when the layout parsing fails (no fiducial line, fewer than 3
\* coordinate pairs, no area) the run stops there: the step that fails leaves
\* the reference data and the canvas untouched and no step follows it; and a
\* step that writes the raster starts from the state in which every patch of
\* every area is resolved.
C25_StagesInOrder ==
    [][/\ ~LayoutFailed
       /\ LayoutFailed' => (pc' = "failed" /\ UNCHANGED <<refvars, paintvars>>)
       /\ (RasterWritten' /\ ~RasterWritten) => (pc = "painted" /\ EveryPatchResolved)]_vars

\* a layout without enough fiducial pairs has stopped the run before the
\* reference text was read
C25_Witness ==
    /\ LayoutFailed
    /\ cht.status = "insufficient_pairs"
    /\ pc = "failed"
    /\ data_map = <<>>
    /\ painted = <<>>

-----------------------------------------------------------------------------
(* Claims about patch identifiers and the lookup *)

\* the two labels in the order the three tiers give them
ClaimedOrder(mode, r, c) ==
    IF r = Sentinel THEN c
    ELSE IF c = Sentinel THEN r
    ELSE IF mode = "prefixed_y" THEN r \o c
    ELSE IF mode = "prefixed_x" THEN c \o r
    ELSE IF StartsDigit(r) /\ StartsAlpha(c) THEN c \o r
    ELSE r \o c

\* C26: the identifier of a cell: with one axis disabled the label of the
\* other axis alone; otherwise row + column in prefixed_y mode and column +
\* row in prefixed_x mode; otherwise the label starting with a letter before
\* the one starting with a digit, row + column when both start alike; and the
\* result is in normalized form.
C26_PatchLabelTiers ==
    pc = "done" =>
        /\ patch_label
              = normalize_sid_global(ClaimedOrder(label_in[1], label_in[2], label_in[3]))
        /\ normalize_sid_global(patch_label) = patch_label

\* a row labelled with a digit and a column labelled with a letter
C26_Witness ==
    /\ pc = "done"
    /\ label_in = <<"normal", <<"0", "2">>, <<"a">>>>
    /\ patch_label = <<"A", "2">>

\* C27: the lookup never returns the record of a different patch: a key
\* returned for an identifier is a key of the table and has the same
\* normalized form as the identifier.
C27_LookupSameCanonical ==
    (pc = "done" /\ lookup_key # NoKey) =>
        /\ lookup_key \in lookup_keys
        /\ normalize_sid_global(lookup_key) = normalize_sid_global(lookup_sid)

\* A1 is answered with the record of A01 although A10 is in the table
C27_Witness ==
    /\ pc = "done"
    /\ lookup_sid = <<"A", "1">>
    /\ lookup_keys = {<<"A", "0", "1">>, <<"A", "1", "0">>}
    /\ lookup_key = <<"A", "0", "1">>

====
